---- MODULE Spec2Model ----
(***************************************************************************)
(* Model of the n8n scikit-learn nodes: every node's execute() extracts a  *)
(* numeric matrix from the input items, spawns a Python worker with an     *)
(* inline script, collects its stdout/stderr until 'close', parses the     *)
(* JSON document it printed and merges the result onto the input items.    *)
(***************************************************************************)
EXTENDS Integers, Sequences, FiniteSets, TLC

(***************************************************************************)
(* Bounds of the model.                                                    *)
(***************************************************************************)
\* largest number of stdout/stderr 'data' events one stream is cut into
MaxChunks == 2
\* the non-zero exit codes a worker may end with are 1..MaxExit
MaxExit == 2
\* largest number of input items of one execution (the five-record scenario
\* of the specification is added to these)
MaxBatch == 3

(***************************************************************************)
(* JavaScript values held by item.json and produced by the nodes.          *)
(***************************************************************************)
Undefined == [k |-> "undefined"]
Null == [k |-> "null"]
NaN == [k |-> "nan"]
Num(n) == [k |-> "num", v |-> n]
Str(s) == [k |-> "str", v |-> s]
Arr(s) == [k |-> "arr", v |-> s]
\* a value computed by the numeric library (scikit-learn / numpy), which the
\* repository treats as an external function of its arguments
App(f, a) == [k |-> "app", f |-> f, a |-> a]

\* item.json[col]: a missing key reads as undefined
Get(json, col) == IF col \in DOMAIN json THEN json[col] ELSE Undefined

\* an object holding nothing but the new field
PutAlone(json, name, value) == [f \in {name} |-> value]

\* { ...json, [name]: value }
Put(json, name, value) ==
  [f \in (DOMAIN json) \cup {name} |-> IF f = name THEN value ELSE json[f]]

RECURSIVE PutAll(_, _, _)
\* names.forEach((n, idx) => json[n] = values[idx])
PutAll(json, names, values) ==
  IF names = <<>> THEN json
  ELSE PutAll(Put(json, Head(names), Head(values)), Tail(names), Tail(values))

(***************************************************************************)
(* Text.  A string is a sequence of one-character strings.                 *)
(***************************************************************************)
Whitespace == {" ", "\n"}
Digits == {"0", "1", "2", "3", "4", "5", "6", "7", "8", "9"}

DigitVal(c) ==
  CASE c = "0" -> 0 [] c = "1" -> 1 [] c = "2" -> 2 [] c = "3" -> 3
    [] c = "4" -> 4 [] c = "5" -> 5 [] c = "6" -> 6 [] c = "7" -> 7
    [] c = "8" -> 8 [] c = "9" -> 9

RECURSIVE TrimLeft(_)
TrimLeft(s) ==
  IF s # <<>> /\ Head(s) \in Whitespace THEN TrimLeft(Tail(s)) ELSE s

RECURSIVE TrimRight(_)
TrimRight(s) ==
  IF s # <<>> /\ s[Len(s)] \in Whitespace
  THEN TrimRight(SubSeq(s, 1, Len(s) - 1)) ELSE s

\* String.prototype.trim
Trim(s) == TrimRight(TrimLeft(s))

RECURSIVE DigitPrefix(_)
\* the longest prefix of s made of decimal digits
DigitPrefix(s) ==
  IF s # <<>> /\ Head(s) \in Digits THEN <<Head(s)>> \o DigitPrefix(Tail(s))
  ELSE <<>>

RECURSIVE DigitsValue(_, _)
DigitsValue(s, acc) ==
  IF s = <<>> THEN acc ELSE DigitsValue(Tail(s), 10 * acc + DigitVal(Head(s)))

RECURSIVE NumDigits(_)
\* String(n) for a non-negative integer
NumDigits(n) ==
  LET d == CHOOSE c \in Digits : DigitVal(c) = n % 10
  IN  IF n < 10 THEN <<d>> ELSE NumDigits(n \div 10) \o <<d>>

\* String(value) for the values an item can hold
StringOf(value) ==
  CASE value.k = "num" -> NumDigits(value.v)
    [] value.k = "str" -> value.v
    [] value.k = "nan" -> <<"N", "a", "N">>
    [] OTHER -> <<"o", "b", "j">>

\* parseFloat(text): skips leading white space, reads the longest numeric
\* prefix and ignores what follows it; NaN when there is no such prefix
ParseFloat(s) ==
  LET p == DigitPrefix(TrimLeft(s))
  IN  IF p = <<>> THEN NaN ELSE Num(DigitsValue(p, 0))

\* the text is wholly a number (what a strict coercion would accept)
IsNumericText(s) ==
  LET t == Trim(s) IN t # <<>> /\ DigitPrefix(t) = t

IsNumeric(value) ==
  \/ value.k = "num"
  \/ value.k = "str" /\ IsNumericText(value.v)

(***************************************************************************)
(* JSON text exchanged with the worker.  A text is a sequence of tokens: a *)
(* character, or a whole serialized document.                              *)
(***************************************************************************)
Ch(c) == [k |-> "ch", v |-> c]
JsonTok(d) == [k |-> "json", v |-> d]

IsWsTok(t) == t.k = "ch" /\ t.v \in Whitespace

RECURSIVE TrimTextLeft(_)
TrimTextLeft(t) ==
  IF t # <<>> /\ IsWsTok(Head(t)) THEN TrimTextLeft(Tail(t)) ELSE t

RECURSIVE TrimTextRight(_)
TrimTextRight(t) ==
  IF t # <<>> /\ IsWsTok(t[Len(t)])
  THEN TrimTextRight(SubSeq(t, 1, Len(t) - 1)) ELSE t

\* output.trim()
TrimText(t) == TrimTextRight(TrimTextLeft(t))

\* JSON.stringify of one matrix cell: NaN is written as null
StringifyCell(x) == IF x.k = "nan" THEN Null ELSE x

StringifyRow(row) == [j \in 1..Len(row) |-> StringifyCell(row[j])]

\* JSON.stringify(data) of an array-of-arrays matrix
StringifyMatrix(m) == <<JsonTok([i \in 1..Len(m) |-> StringifyRow(m[i])])>>

\* JSON.parse / json.loads: white space around the document is skipped;
\* anything but exactly one document is a syntax error
JsonOk(t) == LET u == TrimText(t) IN Len(u) = 1 /\ u[1].k = "json"
JsonParse(t) == TrimText(t)[1].v

(***************************************************************************)
(* Column lists and feature extraction.                                    *)
(***************************************************************************)
RECURSIVE Split(_, _)
\* str.split(sep), for a one-character separator
Split(s, sep) ==
  IF \A i \in 1..Len(s) : s[i] # sep THEN <<s>>
  ELSE LET i == CHOOSE n \in 1..Len(s) :
                  s[n] = sep /\ \A m \in 1..(n - 1) : s[m] # sep
       IN  <<SubSeq(s, 1, i - 1)>> \o Split(SubSeq(s, i + 1, Len(s)), sep)

\* featureColumnsStr.split(',').map((col) => col.trim())
SplitColumns(str) ==
  LET raw == Split(str, ",") IN [j \in 1..Len(raw) |-> Trim(raw[j])]

\* new NodeOperationError(node, message, { itemIndex }); a message is kept
\* as its template and the interpolated value
NodeOperationError(fmt, arg, itemIndex) ==
  [name |-> "NodeOperationError", message |-> [fmt |-> fmt, arg |-> arg],
   itemIndex |-> itemIndex]

\* new Error(message): carries nothing but the message
Error(fmt, arg) == [name |-> "Error", message |-> [fmt |-> fmt, arg |-> arg]]

\* the exception JSON.parse throws on malformed text
SyntaxError == [name |-> "SyntaxError",
                message |-> [fmt |-> "Unexpected token in JSON", arg |-> <<>>]]

\* the exception thrown on reading a property of undefined
TypeError == [name |-> "TypeError",
              message |-> [fmt |-> "Cannot read properties of undefined",
                           arg |-> <<>>]]

Absent(value) == value.k \in {"undefined", "null"}

\* the columns of cols, in order, that json lacks
MissingColumns(json, cols) ==
  SelectSeq(cols, LAMBDA c : Absent(Get(json, c)))

\* a row that repeats the first declared column in every position
FeatureRowOfFirst(json, cols) ==
  [j \in 1..Len(cols) |-> ParseFloat(StringOf(Get(json, cols[1])))]

\* featureColumns.map((col) => parseFloat(String(item.json[col])))
FeatureRow(json, cols) ==
  [j \in 1..Len(cols) |-> ParseFloat(StringOf(Get(json, cols[j])))]

\* index (from 1) of the first item that lacks one of cols, 0 when none does
FirstBad(items, cols) ==
  IF \E i \in 1..Len(items) : MissingColumns(items[i], cols) # <<>>
  THEN CHOOSE i \in 1..Len(items) :
         /\ MissingColumns(items[i], cols) # <<>>
         /\ \A m \in 1..(i - 1) : MissingColumns(items[m], cols) = <<>>
  ELSE 0

\* a name that stands for "no target column"
NoTarget == <<>>

\* index (from 1) of the first item whose feature columns or target column
\* are absent or null, 0 when there is none
FirstBadRow(items, cols, target) ==
  LET Bad(i) == \/ MissingColumns(items[i], cols) # <<>>
                \/ target # NoTarget /\ Absent(Get(items[i], target))
  IN  IF \E i \in 1..Len(items) : Bad(i)
      THEN CHOOSE i \in 1..Len(items) : Bad(i) /\ \A m \in 1..(i - 1) : ~Bad(m)
      ELSE 0

\* items.map((item, idx) => featureColumns.map(...)): the matrix, or the
\* NodeOperationError of the first offending record.  reported is the index
\* the node puts in the error: -1 when it is the record's own idx, else the
\* value of the enclosing loop's itemIndex
Extract(items, cols, target, fmtFeature, fmtTarget, reported) ==
  LET bad == FirstBadRow(items, cols, target)
      at == IF reported = -1 THEN bad - 1 ELSE reported
      miss == MissingColumns(items[bad], cols)
  IN  IF bad = 0
      THEN [ok |-> TRUE,
            data |-> [i \in 1..Len(items) |-> FeatureRow(items[i], cols)],
            target |-> [i \in 1..Len(items) |->
                          IF target = NoTarget THEN Undefined
                          ELSE ParseFloat(StringOf(Get(items[i], target)))]]
      ELSE [ok |-> FALSE,
            error |-> IF miss # <<>>
                      THEN NodeOperationError(fmtFeature, Head(miss), at)
                      ELSE NodeOperationError(fmtTarget, target, at)]

\* JSON.stringify(trainingData) for [{features, target}, ...]
StringifyTraining(data, target) ==
  <<JsonTok([i \in 1..Len(data) |->
      [features |-> StringifyRow(data[i]), target |-> StringifyCell(target[i])]])>>

(***************************************************************************)
(* The worker: a Python interpreter running the script the node wrote.     *)
(* An outcome is the exit code with the whole stdout and stderr text.      *)
(***************************************************************************)
\* what print(json.dumps(result)) writes
Printed(doc) == <<JsonTok(doc), Ch("\n")>>

\* the traceback an uncaught Python exception leaves on stderr
Traceback == <<Ch("Traceback"), Ch("\n")>>

Succeeded(doc) == [code |-> 0, stdout |-> Printed(doc), stderr |-> <<>>]
Raised == [code |-> 1, stdout |-> <<>>, stderr |-> Traceback]

HasKeys(doc, keys) == keys \subseteq DOMAIN doc

\* numpy cannot compute on a matrix holding None (a null cell)
RowHasNull(row) == \E j \in 1..Len(row) : row[j].k = "null"
MatrixHasNull(m) == \E i \in 1..Len(m) : RowHasNull(m[i])

Width(m) == IF Len(m) = 0 THEN 0 ELSE Len(m[1])

\* y = (x - mean) / scale with the centring and scaling steps switched by
\* the two flags; the arithmetic itself is numpy's
Standardize(x, mean, scale, center, scaling) ==
  LET c == IF center THEN App("sub", <<x, mean>>) ELSE x
  IN  IF scaling THEN App("div", <<c, scale>>) ELSE c

\* The numbers behind the library's terms, as exact fractions n / d (d > 0).
RECURSIVE GCD(_, _)
GCD(m, n) == IF n = 0 THEN m ELSE GCD(n, m % n)
Abs(n) == IF n < 0 THEN 0 - n ELSE n

\* n / d in lowest terms
Frac(n, d) ==
  LET g == GCD(Abs(n), d)
  IN  [n |-> n \div g, d |-> d \div g]
FracEq(p, q) == p.n * q.d = q.n * p.d
FracLess(p, q) == p.n * q.d < q.n * p.d
FracSub(p, q) == Frac(p.n * q.d - q.n * p.d, p.d * q.d)
FracMul(p, q) == Frac(p.n * q.n, p.d * q.d)
FracDiv(p, q) == IF q.n < 0 THEN Frac(0 - p.n * q.d, 0 - p.d * q.n)
                 ELSE Frac(p.n * q.d, p.d * q.n)

\* the sum of column j over the first n rows of X
RECURSIVE ColumnSum(_, _, _)
ColumnSum(X, j, n) == IF n = 0 THEN 0 ELSE ColumnSum(X, j, n - 1) + X[n][j].v

\* Len(X)^2 times the sum of squared deviations of column j from its mean
RECURSIVE Deviations(_, _, _)
Deviations(X, j, n) ==
  IF n = 0 THEN 0
  ELSE LET d == Len(X) * X[n][j].v - ColumnSum(X, j, Len(X))
       IN  Deviations(X, j, n - 1) + d * d

\* StandardScaler.fit: mean_ is the column mean
MeanValue(X, j) == Frac(ColumnSum(X, j, Len(X)), Len(X))

\* a variance that divides by n - 1
SampleVariance(X, j) ==
  Frac(Deviations(X, j, Len(X)), Len(X) * Len(X) * (Len(X) - 1))

\* StandardScaler.fit: var_ is the population variance (divides by n)
PopulationVariance(X, j) ==
  Frac(Deviations(X, j, Len(X)), Len(X) * Len(X) * Len(X))

\* the value of a term built from numbers, mean_, var_ and subtraction
RECURSIVE RatValue(_)
RatValue(t) ==
  IF t.k = "num" THEN Frac(t.v, 1)
  ELSE IF t.f = "mean_" THEN MeanValue(t.a[1].a[2], t.a[2])
  ELSE IF t.f = "var_" THEN PopulationVariance(t.a[1].a[2], t.a[2])
  ELSE FracSub(RatValue(t.a[1]), RatValue(t.a[2]))

\* the square of a term's value; scale_ is sqrt(var_), or 1 where var_ = 0
RECURSIVE SquareValue(_)
SquareValue(t) ==
  IF t.k = "app" /\ t.f = "div"
  THEN FracDiv(SquareValue(t.a[1]), SquareValue(t.a[2]))
  ELSE IF t.k = "app" /\ t.f = "scale_"
  THEN LET var == PopulationVariance(t.a[1].a[2], t.a[2])
       IN  IF var.n = 0 THEN Frac(1, 1) ELSE var
  ELSE FracMul(RatValue(t), RatValue(t))

\* the term's value is above zero (a scale_ always is)
RECURSIVE Positive(_)
Positive(t) ==
  IF t.k = "app" /\ t.f = "div" THEN Positive(t.a[1])
  ELSE IF t.k = "app" /\ t.f = "scale_" THEN TRUE
  ELSE RatValue(t).n > 0

\* numpy broadcasting of an n x m matrix against a vector of length d
Broadcasts(m, d) == m = d \/ m = 1 \/ d = 1
BroadWidth(m, d) == IF m = 1 THEN d ELSE m
Pick(s, j) == IF Len(s) = 1 THEN s[1] ELSE s[j]

\* doc[key] in JavaScript: undefined when the key is missing
DocGet(doc, key) == IF key \in DOMAIN doc THEN doc[key] ELSE Undefined

\* the estimator scikit-learn fits: a function of its class, its
\* hyperparameters and the training data
Fitted(cls, hyper, X, y) == App(cls, <<hyper, X, y>>)

\* pickle.dumps + base64: the whole fitted object, with the number of
\* features it was fitted on
Pickled(model, nFeatures) == [k |-> "pickle", v |-> model, n |-> nFeatures]

\* KMeans fit / fitPredict script
KMeansFitScript(s, argv) ==
  LET X == JsonParse(argv[1])
      model == Fitted("KMeans", s.nClusters, X, <<>>)
  IN  IF MatrixHasNull(X) \/ Len(X) < s.nClusters THEN Raised
      ELSE Succeeded(
        [cluster_centers |->
           Arr([c \in 1..s.nClusters |->
                  [j \in 1..Width(X) |-> App("cluster_centers_", <<model, c, j>>)]]),
         labels |-> Arr([i \in 1..Len(X) |-> App("labels_", <<model, i>>)]),
         inertia |-> App("inertia_", <<model>>),
         n_clusters |-> Num(s.nClusters),
         n_iter |-> App("n_iter_", <<model>>),
         feature_columns |-> Arr(s.featureColumns)])

\* KMeans predict script: a KMeans object is built and its centres are
\* overwritten from the artifact
KMeansPredictScript(s, argv) ==
  LET md == JsonParse(argv[1])
      X == JsonParse(argv[2])
  IN  IF \/ s.nClusters.k # "num"
         \/ ~JsonOk(argv[1])
         \/ ~HasKeys(md, {"cluster_centers"})
         \/ MatrixHasNull(X)
         \/ Width(X) # Width(md.cluster_centers.v)
      THEN Raised
      ELSE Succeeded(
        [labels |-> Arr([i \in 1..Len(X) |->
                           App("KMeans.predict", <<md.cluster_centers, X[i]>>)]),
         distances |-> Arr([i \in 1..Len(X) |->
                           App("KMeans.transform", <<md.cluster_centers, X[i]>>)])])

\* StandardScaler fit / fitTransform script.  scikit-learn leaves scale_
\* (and, with neither option, mean_) set to None, on which .tolist() raises
StandardScalerFitScript(s, argv) ==
  LET X == JsonParse(argv[1])
      model == Fitted("StandardScaler", <<s.withMean, s.withStd>>, X, <<>>)
      mean == [j \in 1..Width(X) |-> App("mean_", <<model, j>>)]
      scale == [j \in 1..Width(X) |-> App("scale_", <<model, j>>)]
      base == [mean |-> Arr(mean),
               scale |-> Arr(scale),
               var |-> Arr([j \in 1..Width(X) |-> App("var_", <<model, j>>)]),
               feature_columns |-> Arr(s.featureColumns),
               with_mean |-> s.withMean,
               with_std |-> s.withStd]
      transformed ==
        Arr([i \in 1..Len(X) |-> [j \in 1..Width(X) |->
               Standardize(X[i][j], mean[j], scale[j], s.withMean, s.withStd)]])
  IN  IF MatrixHasNull(X) \/ ~s.withStd THEN Raised
      ELSE IF s.transform
           THEN Succeeded([c \in DOMAIN base \cup {"transformed"} |->
                             IF c = "transformed" THEN transformed ELSE base[c]])
           ELSE Succeeded(base)

\* a truth test that takes every stored statistic for missing
TruthyNever(x) == FALSE

\* a Python list is true when it is not empty; None is false
Truthy(x) == x.k = "arr" /\ x.v # <<>>

\* StandardScaler transform script: replays the arithmetic from the
\* statistics stored in the artifact
StandardScalerTransformScript(s, argv) ==
  LET sd == JsonParse(argv[1])
      X == JsonParse(argv[2])
      hasMean == Truthy(sd.mean)
      hasScale == Truthy(sd.scale)
      center == sd.with_mean
      scaling == sd.with_std
      dm == IF hasMean THEN Len(sd.mean.v) ELSE 1
      ds == IF hasScale THEN Len(sd.scale.v) ELSE 1
      w0 == IF center THEN BroadWidth(Width(X), dm) ELSE Width(X)
      w == IF scaling THEN BroadWidth(w0, ds) ELSE w0
      Mean(j) == IF hasMean THEN Pick(sd.mean.v, j) ELSE Num(0)
      Scale(j) == IF hasScale THEN Pick(sd.scale.v, j) ELSE Num(1)
  IN  IF \/ ~JsonOk(argv[1])
         \/ ~HasKeys(sd, {"mean", "scale", "with_mean", "with_std"})
         \/ (center \/ scaling) /\ MatrixHasNull(X)
         \/ center /\ ~Broadcasts(Width(X), dm)
         \/ scaling /\ ~Broadcasts(w0, ds)
      THEN Raised
      ELSE Succeeded(
        [transformed |-> Arr([i \in 1..Len(X) |-> [j \in 1..w |->
            Standardize(Pick(X[i], j), Mean(j), Scale(j), center, scaling)]])])

\* MinMaxScaler.transform: X * scale_ + min_, the arithmetic being numpy's
MinMaxTransform(x, scale, min) == App("add", <<App("mul", <<x, scale>>), min>>)

\* MinMaxScaler fit / fitTransform script
MinMaxScalerFitScript(s, argv) ==
  LET X == JsonParse(argv[1])
      model == Fitted("MinMaxScaler", <<s.featureRangeMin, s.featureRangeMax>>,
                      X, <<>>)
      Attr(name) == Arr([j \in 1..Width(X) |-> App(name, <<model, j>>)])
      base == [data_min |-> Attr("data_min_"),
               data_max |-> Attr("data_max_"),
               data_range |-> Attr("data_range_"),
               scale |-> Attr("scale_"),
               min |-> Attr("min_"),
               feature_range |-> Arr(<<s.featureRangeMin, s.featureRangeMax>>),
               feature_columns |-> Arr(s.featureColumns)]
      transformed ==
        Arr([i \in 1..Len(X) |-> [j \in 1..Width(X) |->
               MinMaxTransform(X[i][j], base.scale.v[j], base.min.v[j])]])
  IN  IF MatrixHasNull(X) \/ Width(X) = 0 THEN Raised
      ELSE IF s.transform
           THEN Succeeded([c \in DOMAIN base \cup {"transformed"} |->
                             IF c = "transformed" THEN transformed ELSE base[c]])
           ELSE Succeeded(base)

\* MinMaxScaler transform script: a new MinMaxScaler whose attributes are
\* assigned from the artifact, then its own transform
MinMaxScalerTransformScript(s, argv) ==
  LET sd == JsonParse(argv[1])
      X == JsonParse(argv[2])
  IN  IF \/ ~JsonOk(argv[1])
         \/ ~HasKeys(sd, {"feature_range", "data_min", "data_max", "data_range",
                          "scale", "min", "feature_columns"})
         \/ MatrixHasNull(X)
         \/ Width(X) # Len(sd.feature_columns.v)
         \/ ~Broadcasts(Width(X), Len(sd.scale.v))
         \/ ~Broadcasts(Width(X), Len(sd.min.v))
      THEN Raised
      ELSE Succeeded(
        [transformed |-> Arr([i \in 1..Len(X) |-> [j \in 1..Width(X) |->
            MinMaxTransform(X[i][j], Pick(sd.scale.v, j), Pick(sd.min.v, j))]])])

\* the rows and targets of json.loads(sys.argv[1]) in the training scripts
TrainX(data) == [i \in 1..Len(data) |-> data[i].features]
TrainY(data) == [i \in 1..Len(data) |-> data[i].target]
TrainingHasNull(data) ==
  \E i \in 1..Len(data) : RowHasNull(data[i].features) \/ data[i].target.k = "null"

\* LinearRegression train script: coefficients and intercept are exported
LinearRegressionTrainScript(s, argv) ==
  LET data == JsonParse(argv[1])
      X == TrainX(data)
      model == Fitted("LinearRegression", s.fitIntercept, X, TrainY(data))
  IN  IF TrainingHasNull(data) THEN Raised
      ELSE Succeeded(
        [coefficients |-> Arr([j \in 1..Width(X) |-> App("coef_", <<model, j>>)]),
         intercept |-> App("intercept_", <<model>>),
         score |-> App("score", <<model>>),
         feature_columns |-> Arr(s.featureColumns),
         fit_intercept |-> s.fitIntercept])

\* LinearRegression predict script: np.dot(X, coefficients) + intercept
LinearRegressionPredictScript(s, argv) ==
  LET md == JsonParse(argv[1])
      features == JsonParse(argv[2])
  IN  IF \/ ~JsonOk(argv[1])
         \/ ~HasKeys(md, {"coefficients", "intercept"})
         \/ RowHasNull(features)
         \/ Len(features) # Len(md.coefficients.v)
      THEN Raised
      ELSE Succeeded(
        [prediction |-> App("dot+", <<features, md.coefficients, md.intercept>>)])

\* ElasticNet train script: the fitted object is pickled into the artifact
ElasticNetTrainScript(s, argv) ==
  LET data == JsonParse(argv[1])
      X == TrainX(data)
      model == Fitted("ElasticNet", <<s.alpha, s.l1Ratio>>, X, TrainY(data))
  IN  IF TrainingHasNull(data) THEN Raised
      ELSE Succeeded(
        [model_pickle |-> Pickled(model, Width(X)),
         score |-> App("score", <<model>>),
         coefficients |-> Arr([j \in 1..Width(X) |-> App("coef_", <<model, j>>)]),
         intercept |-> App("intercept_", <<model>>),
         n_iter |-> App("n_iter_", <<model>>),
         alpha |-> s.alpha,
         l1_ratio |-> s.l1Ratio,
         feature_columns |-> Arr(s.featureColumns)])

\* pickle.loads(...).predict(X): whatever object the blob holds predicts
UnpickledPredict(blob, X) ==
  Arr([i \in 1..Len(X) |-> App("predict", <<blob.v, X[i]>>)])

\* ElasticNet predict script
ElasticNetPredictScript(s, argv) ==
  LET md == JsonParse(argv[1])
      X == JsonParse(argv[2])
  IN  IF \/ ~JsonOk(argv[1])
         \/ ~HasKeys(md, {"model_pickle"})
         \/ MatrixHasNull(X)
         \/ Width(X) # md.model_pickle.n
      THEN Raised
      ELSE Succeeded([predictions |-> UnpickledPredict(md.model_pickle, X)])

\* GradientBoosting train script
GradientBoostingTrainScript(s, argv) ==
  LET data == JsonParse(argv[1])
      X == TrainX(data)
      model == Fitted("GradientBoosting", s.modelType, X, TrainY(data))
  IN  IF TrainingHasNull(data) THEN Raised
      ELSE Succeeded(
        [model_pickle |-> Pickled(model, Width(X)),
         model_type |-> s.modelType,
         score |-> App("score", <<model>>),
         feature_importances |->
           Arr([j \in 1..Width(X) |-> App("feature_importances_", <<model, j>>)]),
         feature_columns |-> Arr(s.featureColumns),
         n_estimators |-> s.nEstimators,
         learning_rate |-> s.learningRate,
         max_depth |-> s.maxDepth])

\* GradientBoosting predict script
GradientBoostingPredictScript(s, argv) ==
  LET md == JsonParse(argv[1])
      X == JsonParse(argv[2])
      predictions == UnpickledPredict(md.model_pickle, X)
  IN  IF \/ ~JsonOk(argv[1])
         \/ ~HasKeys(md, {"model_pickle"})
         \/ MatrixHasNull(X)
         \/ Width(X) # md.model_pickle.n
         \/ ~HasKeys(md, {"model_type"})
      THEN Raised
      ELSE IF md.model_type = "classifier"
           THEN Succeeded(
             [predictions |-> predictions,
              probabilities |-> Arr([i \in 1..Len(X) |->
                  App("predict_proba", <<md.model_pickle.v, X[i]>>)])])
           ELSE Succeeded([predictions |-> predictions])

\* DBSCAN script: fit_predict on the matrix; the counts are taken from the
\* labels
DBSCANScript(s, argv) ==
  LET X == JsonParse(argv[1])
      model == Fitted("DBSCAN", <<s.eps, s.minSamples>>, X, <<>>)
  IN  IF MatrixHasNull(X) \/ Width(X) = 0 THEN Raised
      ELSE Succeeded(
        [labels |-> Arr([i \in 1..Len(X) |-> App("labels_", <<model, i>>)]),
         n_clusters |-> App("n_clusters", <<model>>),
         n_noise |-> App("n_noise", <<model>>),
         core_sample_indices |-> App("core_sample_indices_", <<model>>)])

\* the matrix the imputer scripts build: [row[col] for col in columns]
ImputerMatrix(data, columns) ==
  [i \in 1..Len(data) |-> [j \in 1..Len(columns) |-> data[i][columns[j]]]]

\* np.array(X, dtype=float) fails on text that is not a number
FloatMatrixFails(X) ==
  \E i \in 1..Len(X) : \E j \in 1..Len(X[i]) :
     X[i][j].k # "null" /\ ~IsNumeric(X[i][j])

\* the cell after imputation: a missing cell takes the column's statistic
Imputed(x, statistic) ==
  IF x.k = "null" THEN statistic ELSE ParseFloat(StringOf(x))

\* exit 0 with a document holding NaN, which json.dumps writes as the bare
\* token NaN
PrintedNaN == [code |-> 0, stdout |-> <<Ch("NaN"), Ch("\n")>>, stderr |-> <<>>]

\* SimpleImputer fitTransform script (strategy mean); the statistic of a
\* column with no value at all is NaN
SimpleImputerFitScript(s, argv) ==
  LET data == JsonParse(argv[1])
      X == ImputerMatrix(data, s.columns)
      model == Fitted("SimpleImputer", s.strategy, X, <<>>)
      statistics == [j \in 1..Len(s.columns) |-> App("statistics_", <<model, j>>)]
  IN  IF FloatMatrixFails(X) THEN Raised
      ELSE IF \E j \in 1..Len(s.columns) : \A i \in 1..Len(X) : X[i][j].k = "null"
      THEN PrintedNaN
      ELSE Succeeded(
        [imputed |-> Arr([i \in 1..Len(X) |-> [j \in 1..Len(s.columns) |->
                            Imputed(X[i][j], statistics[j])]]),
         statistics |-> Arr(statistics),
         columns |-> Arr(s.columns),
         strategy |-> s.strategy,
         fill_value |-> Null])

\* SimpleImputer transform script: reads the data from argv[1] and the
\* artifact from argv[2], takes the columns from the artifact, fits a new
\* imputer on a row of zeros and overwrites its statistics_
SimpleImputerTransformScript(s, argv) ==
  LET data == JsonParse(argv[1])
      imputer_data == JsonParse(argv[2])
      columns == imputer_data.columns.v
      X == ImputerMatrix(data, columns)
      statistics == imputer_data.statistics
  IN  IF \/ ~JsonOk(argv[2])
         \/ ~HasKeys(imputer_data, {"columns", "strategy", "fill_value", "statistics"})
         \/ \E i \in 1..Len(data) : \E j \in 1..Len(columns) :
               columns[j] \notin DOMAIN data[i]
         \/ FloatMatrixFails(X)
         \/ Len(statistics.v) # Len(columns)
      THEN Raised
      ELSE Succeeded(
        [imputed |-> Arr([i \in 1..Len(X) |-> [j \in 1..Len(columns) |->
                            Imputed(X[i][j], statistics.v[j])]])])

RECURSIVE Ascending(_)
\* the members of a set of integers as an increasing sequence
Ascending(S) ==
  IF S = {} THEN <<>>
  ELSE LET lo == CHOOSE x \in S : \A y \in S : x <= y
       IN  <<lo>> \o Ascending(S \ {lo})

\* TrainTestSplit script: train_test_split keeps ceil(test_size * n) of the
\* indices for the test set and fails when either side would be empty; which
\* indices it picks is the library's choice
TrainTestSplitScript(s, argv) ==
  LET n == Len(JsonParse(argv[1]))
      nTest == (s.testPercent * n + 99) \div 100
      idx == 0..(n - 1)
  IN  IF nTest = 0 \/ nTest >= n THEN {Raised}
      ELSE {Succeeded([train_indices |-> Arr(Ascending(idx \ T)),
                       test_indices |-> Arr(Ascending(T))]) :
              T \in {U \in SUBSET idx : Cardinality(U) = nTest}}

\* Datasets script: the library returns a data set whose content does not
\* depend on any input item
DatasetsScript(s, argv) ==
  Succeeded([X |-> Arr(<<<<App("X", <<s.dataset, 0, 0>>)>>,
                        <<App("X", <<s.dataset, 1, 0>>)>>>>),
             y |-> Arr(<<App("y", <<s.dataset, 0>>), App("y", <<s.dataset, 1>>)>>),
             feature_names |-> Arr(<< <<"feature_0">> >>),
             target_name |-> Str(<<"target">>),
             n_samples |-> 2,
             n_features |-> 1])

\* MLflow scripts: each sets the tracking URI and makes one client call
MlflowScript(s, argv) ==
  CASE s.id = "Mlflow.startRun" ->
         Succeeded([run_id |-> App("run_id", <<s.runName>>), status |-> "RUNNING"])
    [] s.id = "Mlflow.logMetrics" ->
         Succeeded([logged_metrics |-> JsonParse(argv[1]), status |-> "SUCCESS"])
    [] s.id = "Mlflow.endRun" ->
         Succeeded([status |-> "ENDED"])

\* the run a script's mlflow calls act on.  Start Run makes a run and
\* prints its id; the other scripts name no run, and in their own fresh
\* interpreter no run is active, so mlflow.log_* opens a run of its own
\* and mlflow.end_run() finds none
MlflowActsOn(s, argv) ==
  CASE s.id = "Mlflow.startRun" -> App("run_id", <<s.runName>>)
    [] s.id = "Mlflow.endRun" -> Null
    [] OTHER -> App("active_run", <<>>)

\* the script gets as far as pickle.loads: all that comes before it is
\* json.loads of the two arguments and the lookup of model_pickle
Deserializes(s, argv) ==
  /\ s.id \in {"ElasticNet.predict", "GradientBoosting.predict"}
  /\ JsonOk(argv[1])
  /\ HasKeys(JsonParse(argv[1]), {"model_pickle"})

\* the library routines a script calls, in the order it calls them
WorkerCalls(s) ==
  CASE s.id = "KMeans.fit" ->
         <<"json.loads", "KMeans", "fit_predict", "json.dumps">>
    [] s.id = "KMeans.predict" ->
         <<"json.loads", "json.loads", "KMeans", "predict", "transform",
           "json.dumps">>
    [] s.id = "StandardScaler.fit" ->
         IF s.transform
         THEN <<"json.loads", "StandardScaler", "fit", "transform", "json.dumps">>
         ELSE <<"json.loads", "StandardScaler", "fit", "json.dumps">>
    [] s.id = "StandardScaler.transform" ->
         <<"json.loads", "json.loads", "json.dumps">>
    [] s.id = "LinearRegression.train" ->
         <<"json.loads", "LinearRegression", "fit", "score", "json.dumps">>
    [] s.id = "LinearRegression.predict" ->
         <<"json.loads", "json.loads", "np.dot", "json.dumps">>
    [] s.id \in {"ElasticNet.train", "GradientBoosting.train"} ->
         <<"json.loads", "model", "fit", "pickle.dumps", "base64.b64encode",
           "score", "json.dumps">>
    [] s.id = "ElasticNet.predict" ->
         <<"json.loads", "json.loads", "base64.b64decode", "pickle.loads",
           "predict", "json.dumps">>
    [] s.id = "GradientBoosting.predict" ->
         <<"json.loads", "json.loads", "base64.b64decode", "pickle.loads",
           "predict", "model_type", "predict_proba", "json.dumps">>
    [] s.id = "DBSCAN.fitPredict" ->
         <<"json.loads", "DBSCAN", "fit_predict", "json.dumps">>
    [] s.id = "SimpleImputer.fitTransform" ->
         <<"json.loads", "SimpleImputer", "fit_transform", "json.dumps">>
    [] s.id = "SimpleImputer.transform" ->
         <<"json.loads", "json.loads", "SimpleImputer", "fit", "transform",
           "json.dumps">>
    [] s.id = "MinMaxScaler.fit" ->
         IF s.transform
         THEN <<"json.loads", "MinMaxScaler", "fit", "transform", "json.dumps">>
         ELSE <<"json.loads", "MinMaxScaler", "fit", "json.dumps">>
    [] s.id = "MinMaxScaler.transform" ->
         <<"json.loads", "json.loads", "MinMaxScaler", "transform", "json.dumps">>
    [] s.id = "TrainTestSplit.split" ->
         <<"json.loads", "train_test_split", "json.dumps">>
    [] s.id = "Datasets.load" -> <<"load", "json.dumps">>
    [] s.id = "Mlflow.startRun" ->
         <<"set_tracking_uri", "set_experiment", "start_run", "json.dumps">>
    [] s.id = "Mlflow.logMetrics" ->
         <<"set_tracking_uri", "json.loads", "log_metric", "json.dumps">>
    [] OTHER -> <<"set_tracking_uri", "end_run", "json.dumps">>

\* the routines that estimate an object's state from data
FittingRoutines == {"fit", "fit_predict", "fit_transform"}

\* the characters of the labels, in ascending order of code unit
CodeUnits ==
  <<"0", "1", "2", "3", "4", "5", "6", "7", "8", "9",
    "N", "a", "b", "c", "j", "o", "x">>
CodeUnit(c) == CHOOSE i \in 1..Len(CodeUnits) : CodeUnits[i] = c

RECURSIVE TextLess(_, _)
\* s < t for two strings, as numpy orders them
TextLess(s, t) ==
  IF t = <<>> THEN FALSE
  ELSE IF s = <<>> THEN TRUE
  ELSE IF Head(s) = Head(t) THEN TextLess(Tail(s), Tail(t))
  ELSE CodeUnit(Head(s)) < CodeUnit(Head(t))

\* encoder.classes_ after fit: the distinct labels in ascending order
Classes(labels) ==
  LET set == {labels[i] : i \in 1..Len(labels)}
  IN  [r \in 1..Cardinality(set) |->
         CHOOSE l \in set : Cardinality({m \in set : TextLess(m, l)}) = r - 1]

\* Label Encoder fitTransform script: each label's code is its position
\* (from 0) in classes_
LabelEncoderFitScript(s, argv) ==
  LET labels == JsonParse(argv[1])
      texts == [i \in 1..Len(labels) |-> labels[i].v]
      classes == Classes(texts)
  IN  Succeeded(
        [classes |-> Arr([r \in 1..Len(classes) |-> Str(classes[r])]),
         encoded |-> Arr([i \in 1..Len(texts) |->
                        Num((CHOOSE r \in 1..Len(classes) :
                               classes[r] = texts[i]) - 1)]),
         column |-> Str(s.column)])

\* Label Encoder inverseTransform script: classes_ is set from the encoder
\* document and each code is replaced by the class at that position; a code
\* outside classes_ (or null) is a ValueError
LabelEncoderInverseScript(s, argv) ==
  LET encoder_data == JsonParse(argv[1])
      encoded == JsonParse(argv[2])
      classes == encoder_data.classes.v
  IN  IF \/ ~JsonOk(argv[1])
         \/ ~HasKeys(encoder_data, {"classes"})
         \/ encoder_data.classes.k # "arr"
         \/ \E i \in 1..Len(encoded) :
              \/ encoded[i].k # "num"
              \/ encoded[i].v + 1 \notin 1..Len(classes)
      THEN Raised
      ELSE Succeeded(
        [labels |-> Arr([i \in 1..Len(encoded) |-> classes[encoded[i].v + 1]])])

\* the scripts that load an artifact, and the positions of sys.argv from
\* which each reads the artifact document and the data
ApplyScripts ==
  {"KMeans.predict", "StandardScaler.transform", "LinearRegression.predict",
   "ElasticNet.predict", "GradientBoosting.predict", "MinMaxScaler.transform",
   "SimpleImputer.transform", "LabelEncoder.inverseTransform"}
\* every script reading the artifact from sys.argv[1]
ArtifactArgFirst(s) == 1
ArtifactArg(s) == IF s.id = "SimpleImputer.transform" THEN 2 ELSE 1
DataArg(s) == IF s.id = "SimpleImputer.transform" THEN 1 ELSE 2

\* what the script itself does with its arguments
ScriptOutcomes(s, argv) ==
  CASE s.id = "KMeans.fit" -> {KMeansFitScript(s, argv)}
    [] s.id = "KMeans.predict" -> {KMeansPredictScript(s, argv)}
    [] s.id = "StandardScaler.fit" -> {StandardScalerFitScript(s, argv)}
    [] s.id = "StandardScaler.transform" -> {StandardScalerTransformScript(s, argv)}
    [] s.id = "LinearRegression.train" -> {LinearRegressionTrainScript(s, argv)}
    [] s.id = "LinearRegression.predict" -> {LinearRegressionPredictScript(s, argv)}
    [] s.id = "ElasticNet.train" -> {ElasticNetTrainScript(s, argv)}
    [] s.id = "ElasticNet.predict" -> {ElasticNetPredictScript(s, argv)}
    [] s.id = "GradientBoosting.train" -> {GradientBoostingTrainScript(s, argv)}
    [] s.id = "GradientBoosting.predict" -> {GradientBoostingPredictScript(s, argv)}
    [] s.id = "DBSCAN.fitPredict" -> {DBSCANScript(s, argv)}
    [] s.id = "SimpleImputer.fitTransform" -> {SimpleImputerFitScript(s, argv)}
    [] s.id = "SimpleImputer.transform" -> {SimpleImputerTransformScript(s, argv)}
    [] s.id = "MinMaxScaler.fit" -> {MinMaxScalerFitScript(s, argv)}
    [] s.id = "MinMaxScaler.transform" -> {MinMaxScalerTransformScript(s, argv)}
    [] s.id = "TrainTestSplit.split" -> TrainTestSplitScript(s, argv)
    [] s.id = "Datasets.load" -> {DatasetsScript(s, argv)}
    [] s.id = "LabelEncoder.fitTransform" -> {LabelEncoderFitScript(s, argv)}
    [] s.id = "LabelEncoder.inverseTransform" -> {LabelEncoderInverseScript(s, argv)}
    [] OTHER -> {MlflowScript(s, argv)}

\* what the interpreter may do regardless of the script: die with any
\* non-zero exit code (missing module, out of memory), or exit 0 having
\* printed something that is not the JSON document
Crashed(code) == [code |-> code, stdout |-> <<>>, stderr |-> Traceback]
Garbled == [code |-> 0, stdout |-> <<Ch("warning"), Ch("\n")>>, stderr |-> <<>>]

\* every way one spawned worker can end
WorkerOutcomes(s, argv) ==
  ScriptOutcomes(s, argv) \cup {Crashed(c) : c \in 1..MaxExit} \cup {Garbled}

(***************************************************************************)
(* The nodes.  Prepare is execute() up to the spawn: either the script and *)
(* its arguments, or the exception thrown before any worker is started.    *)
(* Project is execute() from the parsed worker output to the records it    *)
(* pushes.  itemIndex is the enclosing loop's index in the nodes that have *)
(* one (from 0, as in the source); items are indexed from 1.               *)
(***************************************************************************)
Text(t) == [k |-> "text", v |-> t]
Doc(d) == [k |-> "doc", v |-> d]
Message(m) == [k |-> "message", v |-> m]

\* array[i] in JavaScript (i from 0): undefined beyond the end
Index(arr, i) == IF arr.k = "arr" /\ i + 1 \in 1..Len(arr.v) THEN arr.v[i + 1] ELSE Undefined

NoError == [name |-> "none"]
ToSpawn(script, argv) == [error |-> NoError, script |-> script, argv |-> argv]
ToThrow(e) == [error |-> e]
Pushed(records) == [error |-> NoError, push |-> records]
\* records pushed before the exception e was thrown
PushedThenThrew(records, e) == [error |-> e, push |-> records]

InItem == "Feature column '%' not found in item"
TargetInItem == "Target column '%' not found in item"
NotFound == "Feature column '%' not found"
TargetNotFound == "Target column '%' not found"

KMeansPrepare(op, items, p) ==
  LET featureColumns == SplitColumns(p.featureColumns)
      ex == Extract(items, featureColumns, NoTarget, InItem, InItem, -1)
  IN  IF op \in {"fit", "fitPredict"}
      THEN IF ~ex.ok THEN ToThrow(ex.error)
           ELSE ToSpawn([id |-> "KMeans.fit", nClusters |-> p.nClusters,
                         featureColumns |-> featureColumns],
                        <<StringifyMatrix(ex.data)>>)
      ELSE IF ~JsonOk(p.modelData) THEN ToThrow(SyntaxError)
           ELSE IF ~ex.ok THEN ToThrow(ex.error)
           ELSE ToSpawn([id |-> "KMeans.predict",
                         nClusters |-> DocGet(JsonParse(p.modelData), "n_clusters")],
                        <<p.modelData, StringifyMatrix(ex.data)>>)

KMeansProject(op, items, p, resultData) ==
  LET model == JsonParse(resultData)
      first == (<<"model">> :> Text(resultData))
                 @@ (<<"cluster_centers">> :> DocGet(model, "cluster_centers"))
                 @@ (<<"inertia">> :> DocGet(model, "inertia"))
  IN  IF ~JsonOk(resultData) THEN ToThrow(SyntaxError)
      ELSE IF op = "fit"
      THEN Pushed(<<first
                     @@ (<<"n_clusters">> :> DocGet(model, "n_clusters"))
                     @@ (<<"n_iterations">> :> DocGet(model, "n_iter"))
                     @@ (<<"feature_columns">> :> DocGet(model, "feature_columns"))
                     @@ (<<"samples_fitted">> :> Num(Len(items)))>>)
      ELSE IF op = "fitPredict"
      THEN IF DocGet(model, "labels").k = "undefined" THEN ToThrow(TypeError)
           ELSE Pushed([i \in 1..Len(items) |->
                  LET outputJson == Put(items[i], <<"cluster">>, Index(model.labels, i - 1))
                  IN  IF i = 1 THEN first @@ outputJson ELSE outputJson])
      ELSE IF DocGet(model, "labels").k = "undefined"
              \/ DocGet(model, "distances").k = "undefined"
           THEN ToThrow(TypeError)
           ELSE Pushed([i \in 1..Len(items) |->
                  Put(Put(items[i], <<"cluster">>, Index(model.labels, i - 1)),
                      <<"distances_to_centers">>, Index(model.distances, i - 1))])

\* array[i] is defined (i from 0)
HasIndex(arr, i) == arr.k = "arr" /\ i + 1 \in 1..Len(arr.v)
\* row[idx] of a plain array (idx from 0)
RowAt(row, idx) == IF idx + 1 \in 1..Len(row) THEN row[idx + 1] ELSE Undefined

\* number of leading records (of n) whose row the worker's array holds
RowsHeld(arr, n) ==
  IF \A i \in 1..n : HasIndex(arr, i - 1) THEN n
  ELSE (CHOOSE i \in 1..n : ~HasIndex(arr, i - 1)
                            /\ \A m \in 1..(i - 1) : HasIndex(arr, m - 1)) - 1

\* newJson[`${outputPrefix}${col}`] = transformedFeatures[idx], for each col
WithScaled(json, featureColumns, outputPrefix, transformedFeatures) ==
  PutAll(json,
         [j \in 1..Len(featureColumns) |-> outputPrefix \o featureColumns[j]],
         [j \in 1..Len(featureColumns) |-> RowAt(transformedFeatures, j - 1)])

StandardScalerPrepare(op, items, p, itemIndex) ==
  LET featureColumns == SplitColumns(p.featureColumns)
      ex == Extract(items, featureColumns, NoTarget, InItem, InItem, itemIndex)
  IN  IF op \in {"fit", "fitTransform"}
      THEN IF ~ex.ok THEN ToThrow(ex.error)
           ELSE ToSpawn([id |-> "StandardScaler.fit",
                         withMean |-> p.withMean, withStd |-> p.withStd,
                         featureColumns |-> featureColumns,
                         transform |-> (op = "fitTransform")],
                        <<StringifyMatrix(ex.data)>>)
      ELSE IF ~JsonOk(p.modelData) THEN ToThrow(SyntaxError)
           ELSE IF ~ex.ok THEN ToThrow(ex.error)
           ELSE ToSpawn([id |-> "StandardScaler.transform"],
                        <<p.modelData, StringifyMatrix(ex.data)>>)

StandardScalerProject(op, items, p, resultData) ==
  LET result == JsonParse(resultData)
      featureColumns == SplitColumns(p.featureColumns)
      transformed == DocGet(result, "transformed")
      held == IF featureColumns = <<>> THEN Len(items)
              ELSE RowsHeld(transformed, Len(items))
      info == (<<"scaler">> :> Text(resultData))
                @@ (<<"scaler_info">> :>
                      Doc([mean |-> DocGet(result, "mean"),
                           scale |-> DocGet(result, "scale"),
                           variance |-> DocGet(result, "var")]))
      NewJson(i) == WithScaled(items[i], featureColumns, p.outputPrefix,
                               IF HasIndex(transformed, i - 1)
                               THEN transformed.v[i] ELSE <<>>)
      records == [i \in 1..held |->
                    IF i = 1 /\ op = "fitTransform" THEN info @@ NewJson(i)
                    ELSE NewJson(i)]
  IN  IF ~JsonOk(resultData) THEN ToThrow(SyntaxError)
      ELSE IF op = "fit"
      THEN Pushed(<<(<<"scaler">> :> Text(resultData))
                     @@ (<<"mean">> :> DocGet(result, "mean"))
                     @@ (<<"scale">> :> DocGet(result, "scale"))
                     @@ (<<"variance">> :> DocGet(result, "var"))
                     @@ (<<"feature_columns">> :> DocGet(result, "feature_columns"))
                     @@ (<<"fitted_samples">> :> Num(Len(items)))>>)
      ELSE IF held < Len(items) THEN PushedThenThrew(records, TypeError)
      ELSE Pushed(records)

LinearRegressionPrepare(op, items, p, itemIndex) ==
  LET featureColumns == SplitColumns(p.featureColumns)
      ex == Extract(items, featureColumns, p.targetColumn, InItem, TargetInItem,
                    itemIndex)
      one == Extract(<<items[itemIndex + 1]>>, featureColumns, NoTarget, InItem,
                     InItem, itemIndex)
  IN  IF op = "train"
      THEN IF ~ex.ok THEN ToThrow(ex.error)
           ELSE ToSpawn([id |-> "LinearRegression.train",
                         fitIntercept |-> p.fitIntercept,
                         featureColumns |-> featureColumns],
                        <<StringifyTraining(ex.data, ex.target)>>)
      ELSE IF ~JsonOk(p.modelData) THEN ToThrow(SyntaxError)
           ELSE IF ~one.ok THEN ToThrow(one.error)
           ELSE ToSpawn([id |-> "LinearRegression.predict"],
                        <<p.modelData, <<JsonTok(StringifyRow(one.data[1]))>> >>)

LinearRegressionProject(op, items, p, itemIndex, resultData) ==
  LET result == JsonParse(resultData)
  IN  IF ~JsonOk(resultData) THEN ToThrow(SyntaxError)
      ELSE IF op = "train"
      THEN Pushed(<<(<<"model">> :> Text(resultData))
                     @@ (<<"coefficients">> :> DocGet(result, "coefficients"))
                     @@ (<<"intercept">> :> DocGet(result, "intercept"))
                     @@ (<<"r2_score">> :> DocGet(result, "score"))
                     @@ (<<"feature_columns">> :> DocGet(result, "feature_columns"))
                     @@ (<<"training_samples">> :> Num(Len(items)))>>)
      ELSE Pushed(<<Put(items[itemIndex + 1], <<"prediction">>,
                        DocGet(result, "prediction"))>>)

\* the predict branch shared by the pickled-model nodes: one record per
\* item with prediction: result.predictions[i]
WithPredictions(items, result) ==
  [i \in 1..Len(items) |->
     LET outputJson == Put(items[i], <<"prediction">>,
                           Index(result.predictions, i - 1))
     IN  IF "probabilities" \in DOMAIN result
         THEN Put(outputJson, <<"probabilities">>, Index(result.probabilities, i - 1))
         ELSE outputJson]

ElasticNetPrepare(op, items, p) ==
  LET featureColumns == SplitColumns(p.featureColumns)
      ex == Extract(items, featureColumns,
                    IF op = "train" THEN p.targetColumn ELSE NoTarget,
                    NotFound, TargetNotFound, -1)
  IN  IF ~ex.ok THEN ToThrow(ex.error)
      ELSE IF op = "train"
      THEN ToSpawn([id |-> "ElasticNet.train", alpha |-> p.alpha,
                    l1Ratio |-> p.l1Ratio, featureColumns |-> featureColumns],
                   <<StringifyTraining(ex.data, ex.target)>>)
      ELSE ToSpawn([id |-> "ElasticNet.predict"],
                   <<p.modelData, StringifyMatrix(ex.data)>>)

ElasticNetProject(op, items, p, resultData) ==
  LET result == JsonParse(resultData)
      featureColumns == SplitColumns(p.featureColumns)
  IN  IF ~JsonOk(resultData) THEN ToThrow(SyntaxError)
      ELSE IF op = "train"
      THEN Pushed(<<(<<"model">> :> Text(resultData))
                     @@ (<<"r2_score">> :> DocGet(result, "score"))
                     @@ (<<"coefficients">> :>
                           Doc([j \in 1..Len(featureColumns) |->
                                  <<featureColumns[j],
                                    Index(DocGet(result, "coefficients"), j - 1)>>]))
                     @@ (<<"intercept">> :> DocGet(result, "intercept"))
                     @@ (<<"n_iterations">> :> DocGet(result, "n_iter"))
                     @@ (<<"alpha">> :> DocGet(result, "alpha"))
                     @@ (<<"l1_ratio">> :> DocGet(result, "l1_ratio"))
                     @@ (<<"feature_columns">> :> DocGet(result, "feature_columns"))
                     @@ (<<"training_samples">> :> Num(Len(items)))>>)
      ELSE IF DocGet(result, "predictions").k = "undefined" THEN ToThrow(TypeError)
      ELSE Pushed(WithPredictions(items, result))

GradientBoostingPrepare(op, items, p) ==
  LET featureColumns == SplitColumns(p.featureColumns)
      ex == Extract(items, featureColumns,
                    IF op = "train" THEN p.targetColumn ELSE NoTarget,
                    NotFound, TargetNotFound, -1)
  IN  IF op = "train"
      THEN IF ~ex.ok THEN ToThrow(ex.error)
           ELSE ToSpawn([id |-> "GradientBoosting.train", modelType |-> p.modelType,
                         nEstimators |-> p.nEstimators,
                         learningRate |-> p.learningRate, maxDepth |-> p.maxDepth,
                         featureColumns |-> featureColumns],
                        <<StringifyTraining(ex.data, ex.target)>>)
      ELSE IF ~JsonOk(p.modelData) THEN ToThrow(SyntaxError)
           ELSE IF ~ex.ok THEN ToThrow(ex.error)
           ELSE ToSpawn([id |-> "GradientBoosting.predict"],
                        <<p.modelData, StringifyMatrix(ex.data)>>)

GradientBoostingProject(op, items, p, resultData) ==
  LET model == JsonParse(resultData)
  IN  IF ~JsonOk(resultData) THEN ToThrow(SyntaxError)
      ELSE IF op = "train"
      THEN Pushed(<<(<<"model">> :> Text(resultData))
                     @@ (<<"model_type">> :> Str(<<DocGet(model, "model_type")>>))
                     @@ (<<"score">> :> DocGet(model, "score"))
                     @@ (<<"feature_importances">> :> DocGet(model, "feature_importances"))
                     @@ (<<"feature_columns">> :> DocGet(model, "feature_columns"))
                     @@ (<<"classes">> :> DocGet(model, "classes"))
                     @@ (<<"n_estimators">> :> DocGet(model, "n_estimators"))
                     @@ (<<"learning_rate">> :> DocGet(model, "learning_rate"))
                     @@ (<<"training_samples">> :> Num(Len(items)))>>)
      ELSE IF DocGet(model, "predictions").k = "undefined" THEN ToThrow(TypeError)
      ELSE Pushed(WithPredictions(items, model))

MinMaxScalerPrepare(op, items, p) ==
  LET featureColumns == SplitColumns(p.featureColumns)
      ex == Extract(items, featureColumns, NoTarget, NotFound, NotFound, -1)
  IN  IF op \in {"fit", "fitTransform"}
      THEN IF ~ex.ok THEN ToThrow(ex.error)
           ELSE ToSpawn([id |-> "MinMaxScaler.fit",
                         featureRangeMin |-> p.featureRangeMin,
                         featureRangeMax |-> p.featureRangeMax,
                         featureColumns |-> featureColumns,
                         transform |-> (op = "fitTransform")],
                        <<StringifyMatrix(ex.data)>>)
      ELSE IF ~JsonOk(p.modelData) THEN ToThrow(SyntaxError)
           ELSE IF ~ex.ok THEN ToThrow(ex.error)
           ELSE ToSpawn([id |-> "MinMaxScaler.transform"],
                        <<p.modelData, StringifyMatrix(ex.data)>>)

MinMaxScalerProject(op, items, p, resultData) ==
  LET result == JsonParse(resultData)
      featureColumns == SplitColumns(p.featureColumns)
      transformed == DocGet(result, "transformed")
      NewJson(i) == WithScaled(items[i], featureColumns, p.outputPrefix,
                               transformed.v[i])
  IN  IF ~JsonOk(resultData) THEN ToThrow(SyntaxError)
      ELSE IF op = "fit"
      THEN Pushed(<<(<<"scaler">> :> Text(resultData))
                     @@ (<<"data_min">> :> DocGet(result, "data_min"))
                     @@ (<<"data_max">> :> DocGet(result, "data_max"))
                     @@ (<<"data_range">> :> DocGet(result, "data_range"))
                     @@ (<<"feature_range">> :> DocGet(result, "feature_range"))
                     @@ (<<"feature_columns">> :> DocGet(result, "feature_columns"))
                     @@ (<<"fitted_samples">> :> Num(Len(items)))>>)
      ELSE IF RowsHeld(transformed, Len(items)) < Len(items) THEN ToThrow(TypeError)
      ELSE Pushed([i \in 1..Len(items) |->
             IF i = 1 /\ op = "fitTransform"
             THEN (<<"scaler">> :> Text(resultData)) @@ NewJson(i)
             ELSE NewJson(i)])

\* the DBSCAN node has one operation, named here after the fit_predict
\* call its script makes
DBSCANPrepare(items, p) ==
  LET featureColumns == SplitColumns(p.featureColumns)
      ex == Extract(items, featureColumns, NoTarget, NotFound, NotFound, -1)
  IN  IF ~ex.ok THEN ToThrow(ex.error)
      ELSE ToSpawn([id |-> "DBSCAN.fitPredict", eps |-> p.eps,
                    minSamples |-> p.minSamples],
                   <<StringifyMatrix(ex.data)>>)

\* every record gets its label and the batch's n_clusters and n_noise
DBSCANProject(items, resultData) ==
  LET result == JsonParse(resultData)
  IN  IF ~JsonOk(resultData) THEN ToThrow(SyntaxError)
      ELSE IF \/ DocGet(result, "labels").k = "undefined"
              \/ DocGet(result, "core_sample_indices").k = "undefined"
      THEN ToThrow(TypeError)
      ELSE Pushed([i \in 1..Len(items) |->
             LET label == Index(result.labels, i - 1)
             IN  PutAll(items[i],
                        << <<"cluster">>, <<"is_noise">>, <<"is_core_sample">>,
                           <<"n_clusters">>, <<"n_noise">> >>,
                        <<label,
                          App("===", <<label, Num(0 - 1)>>),
                          App("includes", <<result.core_sample_indices, i - 1>>),
                          DocGet(result, "n_clusters"),
                          DocGet(result, "n_noise")>>)])

\* row[col] = value === undefined || value === null || value === '' ? null
\* : value, for each col; JSON.stringify of the rows
ImputerRows(items, columns) ==
  <<JsonTok([i \in 1..Len(items) |->
      [c \in {columns[j] : j \in 1..Len(columns)} |->
         LET value == Get(items[i], c)
         IN  IF Absent(value) \/ value = Str(<<>>) THEN Null ELSE value]])>>

SimpleImputerPrepare(op, items, p) ==
  LET columns == SplitColumns(p.featureColumns)
  IN  IF op = "fitTransform"
      THEN ToSpawn([id |-> "SimpleImputer.fitTransform", columns |-> columns,
                    strategy |-> p.strategy],
                   <<ImputerRows(items, columns)>>)
      ELSE IF ~JsonOk(p.modelData) THEN ToThrow(SyntaxError)
           ELSE ToSpawn([id |-> "SimpleImputer.transform"],
                        <<ImputerRows(items, columns), p.modelData>>)

\* newJson[col] = result.imputed[i][idx]; the first record of a
\* fitTransform also gets imputer and statistics
SimpleImputerProject(op, items, p, resultData) ==
  LET result == JsonParse(resultData)
      columns == SplitColumns(p.featureColumns)
      imputed == DocGet(result, "imputed")
      NewJson(i) == PutAll(items[i], columns,
                           [j \in 1..Len(columns) |-> RowAt(imputed.v[i], j - 1)])
      info == (<<"imputer">> :> Text(resultData))
                @@ (<<"statistics">> :>
                      Doc([j \in 1..Len(columns) |->
                             <<columns[j], Index(DocGet(result, "statistics"), j - 1)>>]))
  IN  IF ~JsonOk(resultData) THEN ToThrow(SyntaxError)
      ELSE IF RowsHeld(imputed, Len(items)) < Len(items) THEN ToThrow(TypeError)
      ELSE Pushed([i \in 1..Len(items) |->
             IF i = 1 /\ op = "fitTransform" THEN info @@ NewJson(i)
             ELSE NewJson(i)])

\* JSON.stringify(items.map((item) => item.json))
StringifyItems(items) == <<JsonTok(items)>>

TrainTestSplitPrepare(items, p) ==
  ToSpawn([id |-> "TrainTestSplit.split", testPercent |-> p.testPercent],
          <<StringifyItems(items)>>)

\* indices.map((idx) => ({ json: { ...items[idx].json, _split } }))
\* an output that repeats the record at the first index
SplitSideOfFirst(items, indices, split) ==
  [n \in 1..Len(indices.v) |->
     Put(items[indices.v[1] + 1], <<"_split">>, Str(<<split>>))]

SplitSide(items, indices, split) ==
  [n \in 1..Len(indices.v) |->
     Put(items[indices.v[n] + 1], <<"_split">>, Str(<<split>>))]

\* the two output arrays, or the exception thrown while building them
TrainTestSplitProject(items, resultData) ==
  LET result == JsonParse(resultData)
  IN  IF ~JsonOk(resultData) THEN ToThrow(SyntaxError)
      ELSE IF \/ ~HasKeys(result, {"train_indices", "test_indices"})
              \/ \E n \in 1..Len(result.train_indices.v) :
                    result.train_indices.v[n] + 1 \notin 1..Len(items)
              \/ \E n \in 1..Len(result.test_indices.v) :
                    result.test_indices.v[n] + 1 \notin 1..Len(items)
      THEN ToThrow(TypeError)
      ELSE [error |-> NoError,
            outputs |-> <<SplitSide(items, result.train_indices, "train"),
                          SplitSide(items, result.test_indices, "test")>>]

DatasetsPrepare(p) == ToSpawn([id |-> "Datasets.load", dataset |-> p.dataset], <<>>)

\* outputFormat 'rows': one item per sample, with the target when asked
DatasetsProject(p, resultData) ==
  LET result == JsonParse(resultData)
  IN  IF ~JsonOk(resultData) THEN ToThrow(SyntaxError)
      ELSE Pushed([i \in 1..result.n_samples |->
             LET item == PutAll(<<>>, result.feature_names.v, result.X.v[i])
             IN  IF p.includeTarget
                 THEN Put(Put(item, <<"target">>, Index(result.y, i - 1)),
                          <<"target_numeric">>, Index(result.y, i - 1))
                 ELSE item])

\* the metrics named by metricsStr that the current item holds
MlflowMetrics(json, metricNames) ==
  LET held == {n \in 1..Len(metricNames) : ~Absent(Get(json, metricNames[n]))}
  IN  [name \in {metricNames[n] : n \in held} |->
         ParseFloat(StringOf(Get(json, name)))]

MlflowPrepare(op, items, p, itemIndex) ==
  IF op = "startRun"
  THEN ToSpawn([id |-> "Mlflow.startRun", runName |-> p.runName], <<>>)
  ELSE IF op = "logMetrics"
  THEN ToSpawn([id |-> "Mlflow.logMetrics"],
               << <<JsonTok(MlflowMetrics(items[itemIndex + 1],
                                          SplitColumns(p.featureColumns)))>> >>)
  ELSE ToSpawn([id |-> "Mlflow.endRun"], <<>>)

MlflowProject(items, itemIndex, resultData) ==
  IF ~JsonOk(resultData) THEN ToThrow(SyntaxError)
  ELSE Pushed(<<Put(items[itemIndex + 1], <<"mlflow_result">>,
                    Doc(JsonParse(resultData)))>>)

(***************************************************************************)
(* Label Encoder.                                                          *)
(***************************************************************************)
ColumnNotFound == "Column '%' not found"

\* parseInt(text): skips leading white space and reads the longest prefix
\* of digits; NaN when there is none
ParseInt(s) ==
  LET p == DigitPrefix(TrimLeft(s))
  IN  IF p = <<>> THEN NaN ELSE Num(DigitsValue(p, 0))

\* outputColumn || `${column}_suffix`
OutCol(p, suffix) ==
  IF p.outputColumn # <<>> THEN p.outputColumn ELSE p.column \o <<suffix>>

LabelEncoderPrepare(op, items, p) ==
  LET Bad(i) == Absent(Get(items[i], p.column))
      bad == CHOOSE i \in 1..Len(items) : Bad(i) /\ \A m \in 1..(i - 1) : ~Bad(m)
      missing == \E i \in 1..Len(items) : Bad(i)
      labels == [i \in 1..Len(items) |-> Str(StringOf(items[i][p.column]))]
      encoded == [i \in 1..Len(items) |-> ParseInt(StringOf(items[i][p.column]))]
  IN  IF op = "fitTransform"
      THEN IF missing
           THEN ToThrow(NodeOperationError(ColumnNotFound, p.column, bad - 1))
           ELSE ToSpawn([id |-> "LabelEncoder.fitTransform", column |-> p.column],
                        << <<JsonTok(labels)>> >>)
      ELSE IF ~JsonOk(p.modelData) THEN ToThrow(SyntaxError)
           ELSE IF missing
           THEN ToThrow(NodeOperationError(ColumnNotFound, p.column, bad - 1))
           ELSE ToSpawn([id |-> "LabelEncoder.inverseTransform"],
                        <<p.modelData, <<JsonTok(StringifyRow(encoded))>> >>)

LabelEncoderProject(op, items, p, resultData) ==
  LET result == JsonParse(resultData)
      classes == DocGet(result, "classes")
      first == (<<"encoder">> :> Text(resultData))
                 @@ (<<"label_mapping">> :>
                       Doc([r \in 1..Len(classes.v) |->
                              <<classes.v[r].v, Num(r - 1)>>]))
  IN  IF ~JsonOk(resultData) THEN ToThrow(SyntaxError)
      ELSE IF op = "fitTransform"
      THEN IF DocGet(result, "encoded").k # "arr" \/ classes.k # "arr"
           THEN ToThrow(TypeError)
           ELSE Pushed([i \in 1..Len(items) |->
                  LET newJson == Put(items[i], OutCol(p, "_encoded"),
                                     Index(result.encoded, i - 1))
                  IN  IF i = 1 THEN first @@ newJson ELSE newJson])
      ELSE IF DocGet(result, "labels").k # "arr" THEN ToThrow(TypeError)
           ELSE Pushed([i \in 1..Len(items) |->
                  Put(items[i], OutCol(p, "_decoded"),
                      Index(result.labels, i - 1))])

(***************************************************************************)
(* The shape of execute() in each node class.                              *)
(***************************************************************************)
\* nodes whose execute() wraps its body in for (itemIndex ...) { try ... }
PerItem(node) == node \in {"StandardScaler", "LinearRegression", "Mlflow"}

\* what the catch block of execute() does: "continueOnFail" pushes an error
\* record when the switch is on, "wrap" always rethrows, "none" = no try
CatchPolicy(node) ==
  CASE node = "TrainTestSplit" -> "none"
    [] node = "Datasets" -> "wrap"
    [] OTHER -> "continueOnFail"

\* this.getNodeParameter(name, i): a parameter given as an expression over
\* the input record ({{ $json.field }}) is resolved against record i, and
\* is undefined - which is no JSON text - where the record lacks the field
GetNodeParameters(p, its, i) ==
  IF "modelDataFrom" \notin DOMAIN p THEN p
  ELSE LET value == IF i + 1 \in 1..Len(its)
                    THEN Get(its[i + 1], p.modelDataFrom) ELSE Undefined
       IN  [n \in DOMAIN p \cup {"modelData"} |->
              IF n # "modelData" THEN p[n]
              ELSE IF value.k = "text" THEN value.v ELSE <<>>]

\* the record the parameters are resolved against: the loop's current one
\* in the nodes that read them with itemIndex, record 0 in the others
ResolvedAt(node, idx) == IF PerItem(node) THEN idx ELSE 0

Prepare(node, op, its, p, idx) ==
  LET q == GetNodeParameters(p, its, ResolvedAt(node, idx))
  IN 
    CASE node = "KMeans" -> KMeansPrepare(op, its, q)
      [] node = "StandardScaler" -> StandardScalerPrepare(op, its, q, idx)
      [] node = "LinearRegression" -> LinearRegressionPrepare(op, its, q, idx)
      [] node = "ElasticNet" -> ElasticNetPrepare(op, its, q)
      [] node = "GradientBoosting" -> GradientBoostingPrepare(op, its, q)
      [] node = "MinMaxScaler" -> MinMaxScalerPrepare(op, its, q)
      [] node = "DBSCAN" -> DBSCANPrepare(its, q)
      [] node = "SimpleImputer" -> SimpleImputerPrepare(op, its, q)
      [] node = "TrainTestSplit" -> TrainTestSplitPrepare(its, q)
      [] node = "Datasets" -> DatasetsPrepare(q)
      [] node = "LabelEncoder" -> LabelEncoderPrepare(op, its, q)
      [] node = "Mlflow" -> MlflowPrepare(op, its, q, idx)

Project(node, op, its, p, idx, resultData) ==
  CASE node = "KMeans" -> KMeansProject(op, its, p, resultData)
    [] node = "StandardScaler" -> StandardScalerProject(op, its, p, resultData)
    [] node = "LinearRegression" -> LinearRegressionProject(op, its, p, idx, resultData)
    [] node = "ElasticNet" -> ElasticNetProject(op, its, p, resultData)
    [] node = "GradientBoosting" -> GradientBoostingProject(op, its, p, resultData)
    [] node = "MinMaxScaler" -> MinMaxScalerProject(op, its, p, resultData)
    [] node = "DBSCAN" -> DBSCANProject(its, resultData)
    [] node = "SimpleImputer" -> SimpleImputerProject(op, its, p, resultData)
    [] node = "TrainTestSplit" -> TrainTestSplitProject(its, resultData)
    [] node = "Datasets" -> DatasetsProject(p, resultData)
    [] node = "LabelEncoder" -> LabelEncoderProject(op, its, p, resultData)
    [] node = "Mlflow" -> MlflowProject(its, idx, resultData)

\* { json: { error: (error as Error).message } }
ErrorRecord(e) == (<<"error">> :> Message(e.message))

\* new NodeOperationError(node, `Failed to load dataset: ${message}`)
Wrapped(e) ==
  [name |-> "NodeOperationError",
   message |-> [fmt |-> "Failed to load dataset: %", arg |-> e.message]]

Returns(outputs, rd) == [kind |-> "return", outputs |-> outputs, returnData |-> rd]
Throws(e, rd) == [kind |-> "throw", error |-> e, returnData |-> rd]
Spawns(idx, rd, pre) ==
  [kind |-> "spawn", itemIndex |-> idx, returnData |-> rd,
   script |-> pre.script, argv |-> pre.argv]

RECURSIVE Advance(_, _, _, _, _, _)
RECURSIVE Caught(_, _, _, _, _, _, _)

\* execute() from the top of iteration idx (or of the body, in the nodes
\* without a loop) with rd pushed so far, up to its next await, return or
\* throw
Advance(node, op, its, p, idx, rd) ==
  IF PerItem(node) /\ idx >= Len(its) THEN Returns(<<rd>>, rd)
  ELSE LET pre == Prepare(node, op, its, p, idx)
       IN  IF pre.error = NoError THEN Spawns(idx, rd, pre)
           ELSE Caught(node, op, its, p, idx, rd, pre.error)

\* a catch block that returns what was pushed so far, whatever the switch
CaughtAndReturned(node, op, its, p, idx, rd, e) == Returns(<<rd>>, rd)

\* the catch block, entered with exception e in iteration idx
Caught(node, op, its, p, idx, rd, e) ==
  CASE CatchPolicy(node) = "none" -> Throws(e, rd)
    [] CatchPolicy(node) = "wrap" -> Throws(Wrapped(e), rd)
    [] OTHER ->
         IF ~p.continueOnFail THEN Throws(e, rd)
         ELSE IF PerItem(node)
              THEN Advance(node, op, its, p, idx + 1, Append(rd, ErrorRecord(e)))
              ELSE Returns(<<Append(rd, ErrorRecord(e))>>, Append(rd, ErrorRecord(e)))

\* execute() from the point where the awaited promise has settled
Continue(node, op, its, p, idx, rd, settled) ==
  IF settled.state = "rejected"
  THEN Caught(node, op, its, p, idx, rd, settled.value)
  ELSE LET prj == Project(node, op, its, p, idx, settled.value)
           rd2 == IF "push" \in DOMAIN prj THEN rd \o prj.push ELSE rd
       IN  IF prj.error # NoError THEN Caught(node, op, its, p, idx, rd2, prj.error)
           ELSE IF "outputs" \in DOMAIN prj THEN Returns(prj.outputs, rd2)
           ELSE IF PerItem(node) THEN Advance(node, op, its, p, idx + 1, rd2)
           ELSE Returns(<<rd2>>, rd2)

(***************************************************************************)
(* The inputs the executions are started on.                               *)
(***************************************************************************)
ColA == <<"a">>
ColB == <<"b">>
ColY == <<"y">>

\* a record all of whose columns hold numbers
Clean(i) == (ColA :> Num(i)) @@ (ColB :> Num(i + 3)) @@ (ColY :> Num(2 * i))

\* the ways column a of a record can be unfit for the matrix
Defects == {"absent", "null", "prefix", "text"}
Defective(json, d) ==
  CASE d = "absent" -> [f \in (DOMAIN json) \ {ColA} |-> json[f]]
    [] d = "null" -> Put(json, ColA, Null)
    [] d = "prefix" -> Put(json, ColA, Str(<<"7", "x">>))
    [] d = "text" -> Put(json, ColA, Str(<<"a", "b", "c">>))

CleanBatch(n) == [i \in 1..n |-> Clean(i)]
\* the batch of n records whose record at (from 1) has defect d
DefectBatch(n, at, d) ==
  [i \in 1..n |-> IF i = at THEN Defective(Clean(i), d) ELSE Clean(i)]

\* first, middle (floor(n/2)) and last record
Positions(n) == {1, (n \div 2) + 1, n}

\* five records, the third of which lacks the declared column
ScenarioC == DefectBatch(5, 3, "absent")

Batches ==
  {CleanBatch(n) : n \in 1..MaxBatch}
    \cup {DefectBatch(MaxBatch, at, d) :
            at \in Positions(MaxBatch), d \in {"absent", "null"}}
    \cup {DefectBatch(1, 1, d) : d \in Defects}
    \cup {DefectBatch(2, 2, d) : d \in {"prefix", "text"}}
    \cup {ScenarioC}

\* the batches given to the nodes that build no matrix
PlainBatches == {CleanBatch(n) : n \in 1..MaxBatch} \cup {DefectBatch(2, 1, "absent")}

\* values of the Feature Columns parameter at fit time: "a" and "a, b"
ColumnStrings == {<<"a">>, <<"a", ",", " ", "b">>}
\* and at apply time: also "b,a"
ApplyColumnStrings == ColumnStrings \cup {<<"b", ",", "a">>}

\* the artifact a fit on two clean records and columns "a, b" printed
FitColumns == <<ColA, ColB>>
FitMatrix == StringifyMatrix([i \in 1..2 |-> FeatureRow(Clean(i), FitColumns)])
FitTraining ==
  StringifyTraining([i \in 1..2 |-> FeatureRow(Clean(i), FitColumns)],
                    [i \in 1..2 |-> Clean(i)[ColY]])
ArtifactOf(outcome) == TrimText(outcome.stdout)

KMeansArtifact ==
  ArtifactOf(KMeansFitScript([nClusters |-> 2, featureColumns |-> FitColumns],
                             <<FitMatrix>>))
ScalerArtifact ==
  ArtifactOf(StandardScalerFitScript(
    [withMean |-> TRUE, withStd |-> TRUE, featureColumns |-> FitColumns,
     transform |-> FALSE], <<FitMatrix>>))
LinearArtifact ==
  ArtifactOf(LinearRegressionTrainScript(
    [fitIntercept |-> TRUE, featureColumns |-> FitColumns], <<FitTraining>>))
ElasticNetArtifact ==
  ArtifactOf(ElasticNetTrainScript(
    [alpha |-> Num(1), l1Ratio |-> Num(1), featureColumns |-> FitColumns],
    <<FitTraining>>))
EnsembleArtifact ==
  ArtifactOf(GradientBoostingTrainScript(
    [modelType |-> "regressor", nEstimators |-> Num(100),
     learningRate |-> Num(1), maxDepth |-> Num(3), featureColumns |-> FitColumns],
    <<FitTraining>>))

ImputerArtifact ==
  ArtifactOf(SimpleImputerFitScript(
    [columns |-> FitColumns, strategy |-> "mean"],
    <<ImputerRows(CleanBatch(2), FitColumns)>>))

\* the imputer a fit-transform on column "a" alone printed
NarrowImputerArtifact ==
  ArtifactOf(SimpleImputerFitScript(
    [columns |-> <<ColA>>, strategy |-> "mean"],
    <<ImputerRows(CleanBatch(2), <<ColA>>)>>))

\* values of the artifact parameter; the last is its default, ''
Artifacts ==
  {KMeansArtifact, ScalerArtifact, LinearArtifact, ElasticNetArtifact,
   EnsembleArtifact, <<>>}

Call(node, op, its, p) == [node |-> node, operation |-> op, items |-> its, params |-> p]

FitParams ==
  {[featureColumns |-> c, continueOnFail |-> f, nClusters |-> 2,
    withMean |-> TRUE, withStd |-> TRUE, outputPrefix |-> <<"scaled_">>,
    targetColumn |-> ColY, fitIntercept |-> TRUE, alpha |-> Num(1),
    l1Ratio |-> Num(1), modelType |-> "regressor", nEstimators |-> Num(100),
    learningRate |-> Num(1), maxDepth |-> Num(3), eps |-> Num(1),
    minSamples |-> Num(5), strategy |-> "mean", featureRangeMin |-> Num(0),
    featureRangeMax |-> Num(1)] :
     c \in ColumnStrings, f \in BOOLEAN}

\* the four combinations of the Standard Scaler's With Mean / With Std
ScalerFitParams ==
  {[featureColumns |-> c, continueOnFail |-> f, withMean |-> m, withStd |-> d,
    outputPrefix |-> <<"scaled_">>] :
     c \in {<<"a">>}, f \in BOOLEAN, m \in BOOLEAN, d \in BOOLEAN}

ApplyParams ==
  {[featureColumns |-> c, continueOnFail |-> f, modelData |-> a,
    outputPrefix |-> <<"scaled_">>] :
     c \in ApplyColumnStrings, f \in BOOLEAN, a \in Artifacts}

ImputerApplyParams ==
  {[featureColumns |-> c, continueOnFail |-> f, modelData |-> a] :
     c \in ApplyColumnStrings, f \in BOOLEAN,
     a \in {ImputerArtifact, NarrowImputerArtifact, <<>>}}

OtherParams ==
  {[featureColumns |-> <<"a">>, continueOnFail |-> f, testPercent |-> 20,
    dataset |-> "iris", includeTarget |-> TRUE, runName |-> <<"run">>] :
     f \in BOOLEAN}

\* the executions the host may start
Calls ==
  {Call("KMeans", op, b, p) : op \in {"fit", "fitPredict"}, b \in Batches, p \in FitParams}
    \cup {Call("KMeans", "predict", b, p) : b \in Batches, p \in ApplyParams}
    \cup {Call("StandardScaler", op, b, p) :
            op \in {"fit", "fitTransform"}, b \in Batches,
            p \in FitParams \cup ScalerFitParams}
    \cup {Call("StandardScaler", "transform", b, p) : b \in Batches, p \in ApplyParams}
    \cup {Call(n, "train", b, p) :
            n \in {"LinearRegression", "ElasticNet", "GradientBoosting"},
            b \in Batches, p \in FitParams}
    \cup {Call(n, "predict", b, p) :
            n \in {"LinearRegression", "ElasticNet", "GradientBoosting"},
            b \in Batches, p \in ApplyParams}
    \cup {Call("DBSCAN", "fitPredict", b, p) : b \in PlainBatches, p \in FitParams}
    \cup {Call("SimpleImputer", "fitTransform", b, p) : b \in Batches, p \in FitParams}
    \cup {Call("SimpleImputer", "transform", b, p) :
            b \in Batches, p \in ImputerApplyParams}
    \cup {Call("TrainTestSplit", "split", b, p) : b \in PlainBatches, p \in OtherParams}
    \cup {Call("Datasets", "load", <<>>, p) : p \in OtherParams}
    \cup {Call("Mlflow", op, b, p) :
            op \in {"startRun", "logMetrics", "endRun"}, b \in PlainBatches,
            p \in OtherParams}

(***************************************************************************)
(* State.                                                                  *)
(***************************************************************************)
VARIABLES
  call,         \* the execution in progress: node, operation, items, params
  pc,           \* "idle", "awaiting", "settled", "returned" or "thrown"
  itemIndex,    \* the loop index of execute() (0 in the nodes without loop)
  returnData,   \* the records pushed so far
  result,       \* the arrays execute() returned, or the exception it threw
  python,       \* the child process: script, argv, its outcome, and the
                \* stdout and stderr text not yet delivered
  output,       \* stdout text collected by the 'data' handler
  errorOutput,  \* stderr text collected by the 'data' handler
  promise,      \* the promise awaited: pending, resolved or rejected
  spawned,      \* number of workers this execution has spawned
  tracing,      \* whether the executions are being recorded
  trace,        \* when recording: the outcomes of the workers spawned so far
  previous,     \* when recording: the execution that finished before this one
  frames        \* when executions overlap: the locals of each of them

vars == <<call, pc, itemIndex, returnData, result, python, output, errorOutput,
          promise, spawned, tracing, trace, previous, frames>>

NoCall == [node |-> "none"]
NoProcess == [state |-> "none"]
Pending == [state |-> "pending"]
Resolved(v) == [state |-> "resolved", value |-> v]
Rejected(e) == [state |-> "rejected", value |-> e]

Init ==
  /\ call = NoCall
  /\ pc = "idle"
  /\ itemIndex = 0
  /\ returnData = <<>>
  /\ result = <<>>
  /\ python = NoProcess
  /\ output = <<>>
  /\ errorOutput = <<>>
  /\ promise = Pending
  /\ spawned = 0
  /\ tracing = FALSE
  /\ trace = <<>>
  /\ previous = NoCall
  /\ frames = <<>>

\* a returnData that outlives the call: the records of the last execution
StaleReturnData == returnData

\* const returnData: INodeExecutionData[] = [], a local of execute()
FreshReturnData == <<>>

\* the state execute() is in after running up to the step seg; a spawn
\* starts a worker that will end in one of its possible outcomes
Enter(seg, started, traced) ==
  /\ pc' = CASE seg.kind = "spawn" -> "awaiting"
             [] seg.kind = "return" -> "returned"
             [] OTHER -> "thrown"
  /\ IF seg.kind = "spawn"
     THEN /\ \E o \in WorkerOutcomes(seg.script, seg.argv) :
               /\ python' = [state |-> "running", script |-> seg.script,
                             argv |-> seg.argv, outcome |-> o,
                             stdout |-> o.stdout, stderr |-> o.stderr,
                             outEvents |-> 0, errEvents |-> 0]
               /\ spawned' = started + 1
               /\ trace' = IF tracing THEN Append(traced, o) ELSE traced
          /\ itemIndex' = seg.itemIndex
          /\ result' = <<>>
     ELSE /\ python' = IF started = 0 THEN NoProcess ELSE python
          /\ spawned' = started
          /\ trace' = traced
          /\ itemIndex' = 0
          /\ result' = IF seg.kind = "return" THEN seg.outputs ELSE seg.error
  /\ returnData' = seg.returnData
  /\ output' = <<>>
  /\ errorOutput' = <<>>
  /\ promise' = Pending
  /\ UNCHANGED frames

\* the host calls execute() of a node
Execute(c) ==
  /\ pc = "idle"
  /\ call' = c
  /\ Enter(Advance(c.node, c.operation, c.items, c.params, 0, FreshReturnData),
           0, <<>>)
  /\ UNCHANGED <<tracing, previous>>

\* python.stdout.on('data'): the next piece of the worker's stdout arrives
StdoutData ==
  /\ pc = "awaiting"
  /\ python.state = "running"
  /\ \E n \in 1..Len(python.stdout) :
       /\ python.outEvents + 1 = MaxChunks => n = Len(python.stdout)
       /\ output' = output \o SubSeq(python.stdout, 1, n)
       /\ python' = [python EXCEPT !.stdout = SubSeq(@, n + 1, Len(@)),
                                   !.outEvents = @ + 1]
  /\ UNCHANGED <<call, pc, itemIndex, returnData, result, errorOutput, promise,
                 spawned, tracing, trace, previous, frames>>

\* python.stderr.on('data')
StderrData ==
  /\ pc = "awaiting"
  /\ python.state = "running"
  /\ \E n \in 1..Len(python.stderr) :
       /\ python.errEvents + 1 = MaxChunks => n = Len(python.stderr)
       /\ errorOutput' = errorOutput \o SubSeq(python.stderr, 1, n)
       /\ python' = [python EXCEPT !.stderr = SubSeq(@, n + 1, Len(@)),
                                   !.errEvents = @ + 1]
  /\ UNCHANGED <<call, pc, itemIndex, returnData, result, output, promise,
                 spawned, tracing, trace, previous, frames>>

\* a 'close' handler that resolves whatever the exit code
SettleIgnoringCode(code, out, err) == Resolved(TrimText(out))

\* what the 'close' handler settles the promise with
Settle(code, out, err) ==
  IF code # 0 THEN Rejected(Error("Python script failed: %", err))
  ELSE Resolved(TrimText(out))

\* python.on('close'): both streams have ended and the process has exited
Close ==
  /\ pc = "awaiting"
  /\ python.state = "running"
  /\ python.stdout = <<>>
  /\ python.stderr = <<>>
  /\ promise' = Settle(python.outcome.code, output, errorOutput)
  /\ python' = [python EXCEPT !.state = "closed"]
  /\ pc' = "settled"
  /\ UNCHANGED <<call, itemIndex, returnData, result, output, errorOutput,
                 spawned, tracing, trace, previous, frames>>

\* execute() resumes after the await
Resume ==
  /\ pc = "settled"
  /\ Enter(Continue(call.node, call.operation, call.items, call.params,
                    itemIndex, returnData, promise), spawned, trace)
  /\ UNCHANGED <<call, tracing, previous>>

\* the host takes what execute() returned or threw; nothing of the
\* execution is left
Collect ==
  /\ pc \in {"returned", "thrown"}
  /\ call' = NoCall
  /\ pc' = "idle"
  /\ result' = <<>>
  /\ spawned' = 0
  /\ returnData' = <<>>
  /\ python' = NoProcess
  /\ UNCHANGED <<itemIndex, output, errorOutput, promise, tracing, trace, previous,
                 frames>>

Next ==
  \/ \E c \in Calls : Execute(c)
  \/ StdoutData
  \/ StderrData
  \/ Close
  \/ Resume
  \/ Collect

Spec == Init /\ [][Next]_vars

(***************************************************************************)
(* Executions run one after another in the same host process, each one     *)
(* recorded with the outcomes of its workers.                              *)
(***************************************************************************)
InitHistory ==
  /\ call = NoCall
  /\ pc = "idle"
  /\ itemIndex = 0
  /\ returnData = <<>>
  /\ result = <<>>
  /\ python = NoProcess
  /\ output = <<>>
  /\ errorOutput = <<>>
  /\ promise = Pending
  /\ spawned = 0
  /\ tracing = TRUE
  /\ trace = <<>>
  /\ previous = NoCall
  /\ frames = <<>>

\* the executions started one after another
HistoryCalls ==
  {Call("KMeans", "fitPredict", CleanBatch(2), p) :
     p \in {q \in FitParams : q.featureColumns = <<"a">>}}
    \cup {Call("KMeans", "predict", b, p) :
            b \in {CleanBatch(2), DefectBatch(2, 2, "absent")},
            p \in {q \in ApplyParams :
                     /\ q.featureColumns = <<"a", ",", " ", "b">>
                     /\ q.continueOnFail
                     /\ q.modelData \in {KMeansArtifact, ScalerArtifact}}}
    \cup {Call("LinearRegression", "predict", CleanBatch(2), p) :
            p \in {q \in ApplyParams :
                     /\ q.featureColumns = <<"a", ",", " ", "b">>
                     /\ q.continueOnFail
                     /\ q.modelData \in {LinearArtifact, ElasticNetArtifact}}}
    \cup {Call("Mlflow", op, CleanBatch(1), p) :
            op \in {"startRun", "logMetrics"},
            p \in {q \in OtherParams : q.continueOnFail}}

\* the host calls execute() again, in the process that ran the last one
ExecuteNext(c) ==
  /\ pc \in {"idle", "returned", "thrown"}
  /\ call' = c
  /\ previous' = IF pc = "idle" THEN NoCall
                 ELSE [call |-> call, trace |-> trace, pc |-> pc, result |-> result]
  /\ Enter(Advance(c.node, c.operation, c.items, c.params, 0, FreshReturnData),
           0, <<>>)
  /\ UNCHANGED tracing

NextHistory ==
  \/ \E c \in HistoryCalls : ExecuteNext(c)
  \/ StdoutData
  \/ StderrData
  \/ Close
  \/ Resume

SpecHistory == InitHistory /\ [][NextHistory]_vars

(***************************************************************************)
(* A fit followed by the apply that is given what the fit returned, as in  *)
(* a workflow that wires one node's output into the next node.             *)
(***************************************************************************)
\* the first node of the workflow
\* batches whose column a holds labels: texts only, or numbers, or both
LabelBatches ==
  {[i \in 1..MaxBatch |-> Defective(Clean(i), IF i = 2 THEN "prefix" ELSE "text")],
   CleanBatch(2), DefectBatch(2, 2, "text"), DefectBatch(2, 1, "null")}

PipelineCalls ==
  {Call("StandardScaler", "fitTransform", CleanBatch(2), p) :
     p \in {q \in ScalerFitParams \cup FitParams : ~q.continueOnFail}}
    \cup {Call("StandardScaler", "fit", CleanBatch(3), p) :
            p \in {q \in FitParams :
                     ~q.continueOnFail /\ q.featureColumns = <<"a">>}}
    \cup {Call("MinMaxScaler", "fitTransform", b, p) :
            b \in {CleanBatch(2), DefectBatch(2, 2, "prefix")},
            p \in {q \in FitParams : ~q.continueOnFail}}
    \cup {Call("Mlflow", "startRun", CleanBatch(1), p) :
            p \in {q \in OtherParams : ~q.continueOnFail}}
    \cup {Call("LabelEncoder", "fitTransform", b,
                 [column |-> ColA, outputColumn |-> <<>>,
                  continueOnFail |-> FALSE]) : b \in LabelBatches}

\* the executions a workflow may run next, given the records the finished
\* one returned: a transform with the returned scaler, on the same records
\* or on a new one, or on the returned records with the scaler parameter
\* given as the expression {{ $json.scaler }}; a logging call on the
\* records Start Run returned
PipelineNext(c, records) ==
  LET WithArtifact(its) ==
        Call(c.node, "transform", its,
             [featureColumns |-> c.params.featureColumns,
              continueOnFail |-> FALSE,
              modelData |-> records[1][<<"scaler">>].v,
              outputPrefix |-> c.params.outputPrefix])
  IN  IF records = <<>> THEN {}
      ELSE IF c.node = "LabelEncoder"
      THEN {Call("LabelEncoder", "inverseTransform", records,
                 [column |-> OutCol(c.params, "_encoded"),
                  outputColumn |-> <<>>,
                  modelData |-> records[1][<<"encoder">>].v,
                  continueOnFail |-> FALSE])}
      ELSE IF c.operation = "fitTransform"
      THEN {WithArtifact(c.items),
            Call(c.node, "transform", records,
                 [featureColumns |-> c.params.featureColumns,
                  continueOnFail |-> FALSE,
                  modelDataFrom |-> <<"scaler">>,
                  outputPrefix |-> c.params.outputPrefix])}
      ELSE IF c.operation = "fit" THEN {WithArtifact(<<Clean(4)>>)}
      ELSE IF c.operation = "startRun"
      THEN {Call("Mlflow", op, records, c.params) : op \in {"logMetrics", "endRun"}}
      ELSE {}

ExecuteFirst(c) ==
  /\ pc = "idle"
  /\ call' = c
  /\ Enter(Advance(c.node, c.operation, c.items, c.params, 0, FreshReturnData),
           0, <<>>)
  /\ UNCHANGED <<tracing, previous>>

\* the next node runs on what the finished one returned
ExecuteFollowing ==
  /\ pc = "returned"
  /\ previous = NoCall
  /\ \E c \in PipelineNext(call, result[1]) :
       /\ call' = c
       /\ Enter(Advance(c.node, c.operation, c.items, c.params, 0,
                        FreshReturnData), 0, <<>>)
  /\ previous' = [call |-> call, trace |-> trace, pc |-> pc, result |-> result]
  /\ UNCHANGED tracing

NextPipeline ==
  \/ \E c \in PipelineCalls : ExecuteFirst(c)
  \/ ExecuteFollowing
  \/ StdoutData
  \/ StderrData
  \/ Close
  \/ Resume

SpecPipeline == InitHistory /\ [][NextPipeline]_vars

(***************************************************************************)
(* Executions that overlap.  n8n may call execute() again while an earlier *)
(* call is suspended at its await; the event loop then runs the handlers   *)
(* of all the workers in whatever order their events arrive.  Each call    *)
(* has its own frame of locals.                                            *)
(***************************************************************************)
MaxConcurrent == 2

Executions == 1..MaxConcurrent

IdleFrame ==
  [call |-> NoCall, pc |-> "idle", itemIndex |-> 0, returnData |-> <<>>,
   result |-> <<>>, python |-> NoProcess, output |-> <<>>,
   errorOutput |-> <<>>, promise |-> Pending, trace |-> <<>>]

ConcurrentCalls ==
  {Call("KMeans", "predict", CleanBatch(1), p) :
     p \in {q \in ApplyParams :
              /\ q.modelData = KMeansArtifact
              /\ ~q.continueOnFail
              /\ q.featureColumns = <<"a", ",", " ", "b">>}}
    \cup {Call("LinearRegression", "predict", CleanBatch(1), p) :
            p \in {q \in ApplyParams :
                     /\ q.modelData = LinearArtifact
                     /\ q.continueOnFail
                     /\ q.featureColumns = <<"a", ",", " ", "b">>}}

\* buffers kept in one place for all executions
SharedBuffers(e) == 1

\* let output = ''; let errorOutput = '': locals of the promise executor,
\* so the handlers of execution e append to buffers of its own
OwnBuffers(e) == e

\* the frame of an execution that has run up to the step seg, o being the
\* outcome of the worker a spawn starts
Entered(f, seg, o) ==
  IF seg.kind = "spawn"
  THEN [f EXCEPT !.pc = "awaiting",
                 !.python = [state |-> "running", script |-> seg.script,
                             argv |-> seg.argv, outcome |-> o,
                             stdout |-> o.stdout, stderr |-> o.stderr,
                             outEvents |-> 0, errEvents |-> 0],
                 !.itemIndex = seg.itemIndex,
                 !.returnData = seg.returnData,
                 !.promise = Pending,
                 !.trace = Append(@, o)]
  ELSE [f EXCEPT !.pc = IF seg.kind = "return" THEN "returned" ELSE "thrown",
                 !.result = IF seg.kind = "return" THEN seg.outputs ELSE seg.error,
                 !.returnData = seg.returnData]

\* execution e goes on from frame f up to the step seg; a spawn starts
\* with empty buffers
EnterOf(e, f, seg) ==
  \E o \in IF seg.kind = "spawn" THEN WorkerOutcomes(seg.script, seg.argv)
            ELSE {Garbled} :
    LET entered == [frames EXCEPT ![e] = Entered(f, seg, o)]
    IN  frames' = IF seg.kind = "spawn"
                  THEN [entered EXCEPT ![OwnBuffers(e)].output = <<>>,
                                       ![OwnBuffers(e)].errorOutput = <<>>]
                  ELSE entered

InitConcurrent ==
  /\ call = NoCall
  /\ pc = "idle"
  /\ itemIndex = 0
  /\ returnData = <<>>
  /\ result = <<>>
  /\ python = NoProcess
  /\ output = <<>>
  /\ errorOutput = <<>>
  /\ promise = Pending
  /\ spawned = 0
  /\ tracing = TRUE
  /\ trace = <<>>
  /\ previous = NoCall
  /\ frames = [e \in Executions |-> IdleFrame]

ExecuteOf(e, c) ==
  /\ frames[e].pc = "idle"
  /\ \A d \in 1..(e - 1) : frames[d].pc # "idle"
  /\ EnterOf(e, [frames[e] EXCEPT !.call = c],
             Advance(c.node, c.operation, c.items, c.params, 0, FreshReturnData))
  /\ UNCHANGED <<call, pc, itemIndex, returnData, result, python, output,
                 errorOutput, promise, spawned, tracing, trace, previous>>

StdoutDataOf(e) ==
  /\ frames[e].pc = "awaiting"
  /\ frames[e].python.state = "running"
  /\ \E n \in 1..Len(frames[e].python.stdout) :
       /\ frames[e].python.outEvents + 1 = MaxChunks
            => n = Len(frames[e].python.stdout)
       /\ frames' =
            [[frames EXCEPT ![e].python.stdout = SubSeq(@, n + 1, Len(@)),
                            ![e].python.outEvents = @ + 1]
               EXCEPT ![OwnBuffers(e)].output =
                        @ \o SubSeq(frames[e].python.stdout, 1, n)]
  /\ UNCHANGED <<call, pc, itemIndex, returnData, result, python, output,
                 errorOutput, promise, spawned, tracing, trace, previous>>

StderrDataOf(e) ==
  /\ frames[e].pc = "awaiting"
  /\ frames[e].python.state = "running"
  /\ \E n \in 1..Len(frames[e].python.stderr) :
       /\ frames[e].python.errEvents + 1 = MaxChunks
            => n = Len(frames[e].python.stderr)
       /\ frames' =
            [[frames EXCEPT ![e].python.stderr = SubSeq(@, n + 1, Len(@)),
                            ![e].python.errEvents = @ + 1]
               EXCEPT ![OwnBuffers(e)].errorOutput =
                        @ \o SubSeq(frames[e].python.stderr, 1, n)]
  /\ UNCHANGED <<call, pc, itemIndex, returnData, result, python, output,
                 errorOutput, promise, spawned, tracing, trace, previous>>

CloseOf(e) ==
  /\ frames[e].pc = "awaiting"
  /\ frames[e].python.state = "running"
  /\ frames[e].python.stdout = <<>>
  /\ frames[e].python.stderr = <<>>
  /\ frames' = [frames EXCEPT
                  ![e].promise = Settle(frames[e].python.outcome.code,
                                        frames[OwnBuffers(e)].output,
                                        frames[OwnBuffers(e)].errorOutput),
                  ![e].python.state = "closed",
                  ![e].pc = "settled"]
  /\ UNCHANGED <<call, pc, itemIndex, returnData, result, python, output,
                 errorOutput, promise, spawned, tracing, trace, previous>>

ResumeOf(e) ==
  /\ frames[e].pc = "settled"
  /\ LET f == frames[e]
     IN  EnterOf(e, f, Continue(f.call.node, f.call.operation, f.call.items,
                                f.call.params, f.itemIndex, f.returnData,
                                f.promise))
  /\ UNCHANGED <<call, pc, itemIndex, returnData, result, python, output,
                 errorOutput, promise, spawned, tracing, trace, previous>>

NextConcurrent ==
  \/ \E e \in Executions, c \in ConcurrentCalls : ExecuteOf(e, c)
  \/ \E e \in Executions : StdoutDataOf(e)
  \/ \E e \in Executions : StderrDataOf(e)
  \/ \E e \in Executions : CloseOf(e)
  \/ \E e \in Executions : ResumeOf(e)

SpecConcurrent == InitConcurrent /\ [][NextConcurrent]_vars

\* execute() run by itself to its end, the workers it spawns ending in the
\* given outcomes, each delivered whole
RECURSIVE RunFrom(_, _, _)
RunFrom(c, seg, outcomes) ==
  IF seg.kind # "spawn" THEN seg
  ELSE RunFrom(c,
               Continue(c.node, c.operation, c.items, c.params, seg.itemIndex,
                        seg.returnData,
                        Settle(Head(outcomes).code, Head(outcomes).stdout,
                               Head(outcomes).stderr)),
               Tail(outcomes))

Alone(c, outcomes) ==
  RunFrom(c, Advance(c.node, c.operation, c.items, c.params, 0, FreshReturnData),
          outcomes)

(***************************************************************************)
(* Progress.  The runtime's event loop runs every handler whose event has  *)
(* arrived, so the handlers are weakly fair.  A worker that cannot be      *)
(* started (no such interpreter) makes the child process emit 'error'; no  *)
(* node registers a listener for it.                                       *)
(***************************************************************************)
LiveCalls ==
  {Call("KMeans", op, CleanBatch(n), p) :
     op \in {"fit", "fitPredict"}, n \in 1..2,
     p \in {q \in FitParams : q.featureColumns = <<"a">>}}
    \cup {Call("Datasets", "load", <<>>, p) : p \in OtherParams}

\* spawn fails: the child process emits 'error' in place of 'exit'.  With
\* no listener the emit throws inside the runtime's exit callback, so
\* 'close' is never emitted; the exception is uncaught, and the host
\* either dies of it or, with a process-wide handler, goes on
SpawnError ==
  /\ pc = "awaiting"
  /\ python.state = "running"
  /\ python.outEvents = 0
  /\ python.errEvents = 0
  /\ python' = [python EXCEPT !.state = "unstarted", !.stdout = <<>>,
                              !.stderr = <<>>]
  /\ \E after \in {"awaiting", "aborted"} : pc' = after
  /\ UNCHANGED <<call, itemIndex, returnData, result, output, errorOutput,
                 promise, spawned, tracing, trace, previous, frames>>

NextLive ==
  \/ \E c \in LiveCalls : Execute(c)
  \/ SpawnError
  \/ StdoutData
  \/ StderrData
  \/ Close
  \/ Resume

SpecLive ==
  /\ Init
  /\ [][NextLive]_vars
  /\ WF_vars(StdoutData)
  /\ WF_vars(StderrData)
  /\ WF_vars(Close)
  /\ WF_vars(Resume)

(***************************************************************************)
(* The interpreter.                                                        *)
(***************************************************************************)
\* the environments the host may have been started in
Environments == {<<>>, [PYTHON_PATH |-> <<"python3.10">>]}

\* this.getNodeParameter('pythonPath', 0): the parameter, whose declared
\* default is 'python3'; the environment is not read
PythonPath(p, env) ==
  IF "pythonPath" \in DOMAIN p THEN p.pythonPath ELSE <<"python3">>

(***************************************************************************)
(* Properties.                                                             *)
(***************************************************************************)

\* C1: an operation that returns one record per input record (transform,
\* fit-transform, predict, fit-predict) and ends without an error record
\* returns exactly as many records as it was given, and output record i
\* holds every field of input record i together with a computed field.
C1_BatchOrder ==
  (/\ pc = "returned"
   /\ call.operation \in {"transform", "fitTransform", "predict", "fitPredict"}
   /\ \A i \in 1..Len(result[1]) : <<"error">> \notin DOMAIN result[1][i])
  => /\ Len(result[1]) = Len(call.items)
     /\ \A i \in 1..Len(call.items) :
          /\ DOMAIN call.items[i] \subseteq DOMAIN result[1][i]
          /\ DOMAIN call.items[i] # DOMAIN result[1][i]
          /\ \A f \in DOMAIN call.items[i] : result[1][i][f] = call.items[i][f]

\* C2: when feature extraction throws because a declared column is absent
\* or null, the error names a column and carries a record index such that
\* the record at that index is one in which that column is absent or null.
C2_ErrorLocality ==
  (/\ pc = "thrown"
   /\ result.message.fmt \in {InItem, TargetInItem, NotFound, TargetNotFound})
  => /\ "itemIndex" \in DOMAIN result
     /\ result.itemIndex + 1 \in 1..Len(call.items)
     /\ Absent(Get(call.items[result.itemIndex + 1], result.message.arg))

\* C3: with continue-on-fail on, a fit-and-apply operation given five
\* records of which exactly the third lacks the declared column returns an
\* error record that names the column, and four records that are not error
\* records.
C3_ScenarioC ==
  (/\ pc = "returned"
   /\ call.items = ScenarioC
   /\ call.params.continueOnFail
   /\ call.operation \in {"fitPredict", "fitTransform"})
  => LET out == result[1]
         failed == {i \in 1..Len(out) : <<"error">> \in DOMAIN out[i]}
     IN  /\ \E i \in failed : out[i][<<"error">>].v.arg = ColA
         /\ Cardinality((1..Len(out)) \ failed) = 4

\* C4: with continue-on-fail on, no execution of any node ends by throwing.
C4_NeverPropagates ==
  (pc = "thrown") => ~call.params.continueOnFail

\* C5: the promise of a worker invocation is resolved exactly when the exit
\* code is 0, then with the whole stdout text trimmed of surrounding white
\* space; otherwise it is rejected with an Error that has no exit code and
\* whose message is "Python script failed: " followed by the whole stderr
\* text, unchanged.
C5_WorkerInvocation ==
  (pc = "settled")
  => IF python.outcome.code = 0
     THEN promise = Resolved(TrimText(python.outcome.stdout))
     ELSE /\ promise.state = "rejected"
          /\ promise.value.message
               = [fmt |-> "Python script failed: %", arg |-> python.outcome.stderr]
          /\ "code" \notin DOMAIN promise.value

\* C5 as stated: resolved with the stdout text as the worker wrote it on
\* exit code 0, otherwise rejected with an error carrying the exit code and
\* the stderr text.
C5_AsStated ==
  (pc = "settled")
  => IF python.outcome.code = 0
     THEN promise = Resolved(python.outcome.stdout)
     ELSE /\ promise.state = "rejected"
          /\ "code" \in DOMAIN promise.value
          /\ promise.value.code = python.outcome.code
          /\ promise.value.message.arg = python.outcome.stderr

\* a worker that exited non-zero after its stderr arrived in two pieces
C5_Witness ==
  /\ pc = "settled"
  /\ python.outcome.code # 0
  /\ python.errEvents = 2
  /\ promise.state = "rejected"

\* C6: a worker is only ever started on a matrix every cell of which was
\* read from a value that is a number (or text that is wholly a number).
C6_CoercionError ==
  (/\ pc = "awaiting"
   /\ call.node \in {"KMeans", "StandardScaler", "LinearRegression",
                     "ElasticNet", "GradientBoosting"})
  => LET cols == SplitColumns(call.params.featureColumns)
         rows == IF call.node = "LinearRegression" /\ call.operation = "predict"
                 THEN {itemIndex + 1} ELSE 1..Len(call.items)
     IN  \A i \in rows : \A j \in 1..Len(cols) :
           IsNumeric(Get(call.items[i], cols[j]))

\* C7: an apply operation given an artifact of another model family (the
\* families being clustering, scaling, linear regression - plain or elastic
\* net - and boosted ensembles) returns nothing but error records.
C7_CrossFamily ==
  LET Family(artifact) ==
        CASE artifact = KMeansArtifact -> "cluster"
          [] artifact = ScalerArtifact -> "scaler"
          [] artifact \in {LinearArtifact, ElasticNetArtifact} -> "linear"
          [] OTHER -> "ensemble"
      Expected ==
        CASE call.node = "KMeans" -> "cluster"
          [] call.node = "StandardScaler" -> "scaler"
          [] call.node \in {"LinearRegression", "ElasticNet"} -> "linear"
          [] OTHER -> "ensemble"
  IN  (/\ pc = "returned"
       /\ call.operation \in {"predict", "transform"}
       /\ call.params.modelData # <<>>
       /\ Family(call.params.modelData) # Expected)
      => \A i \in 1..Len(result[1]) : <<"error">> \in DOMAIN result[1][i]

\* C8: an apply operation given its own family's artifact, fitted on
\* columns a, b, and a column list other than a, b never starts a worker.
C8_ColumnList ==
  (/\ pc # "idle"
   /\ call.operation \in {"predict", "transform"}
   /\ call.params.modelData
        = (CASE call.node = "KMeans" -> KMeansArtifact
             [] call.node = "StandardScaler" -> ScalerArtifact
             [] call.node = "LinearRegression" -> LinearArtifact
             [] call.node = "ElasticNet" -> ElasticNetArtifact
             [] OTHER -> EnsembleArtifact)
   /\ SplitColumns(call.params.featureColumns) # FitColumns)
  => spawned = 0

\* C9: an execution that returns without an error record has spawned
\* exactly one worker.
C9_OneWorker ==
  (/\ pc = "returned"
   /\ \A n \in 1..Len(result) : \A i \in 1..Len(result[n]) :
        <<"error">> \notin DOMAIN result[n][i])
  => spawned = 1

\* C10: an execution that had the same node, operation, items and
\* parameters as the execution before it, and whose workers ended the same
\* way, ends as that one did: with the same records returned or the same
\* exception thrown.
C10_NoCrossExecutionState ==
  (/\ pc \in {"returned", "thrown"}
   /\ previous # NoCall
   /\ previous.call = call
   /\ previous.trace = trace)
  => /\ previous.pc = pc
     /\ previous.result = result

\* the same call made twice in a row, having pushed records both times
C10_Witness ==
  /\ pc = "returned"
  /\ previous # NoCall
  /\ previous.call = call
  /\ previous.trace = trace
  /\ trace # <<>>
  /\ result[1] # <<>>

\* C11: in an operation that returns one record per input record and ends
\* without an error record, no returned record after the first holds the
\* serialized artifact or a statistic of the whole fit.
C11_MetadataFirstOnly ==
  (/\ pc = "returned"
   /\ call.operation \in {"transform", "fitTransform", "predict", "fitPredict"}
   /\ \A i \in 1..Len(result[1]) : <<"error">> \notin DOMAIN result[1][i])
  => \A i \in 2..Len(result[1]) :
       DOMAIN result[1][i]
         \cap {<<"scaler">>, <<"scaler_info">>, <<"model">>, <<"cluster_centers">>,
               <<"inertia">>, <<"n_clusters">>, <<"n_noise">>} = {}

\* C12: when an operation that emits records derived from input records
\* returns without an error record, every returned record holds, unchanged,
\* every field of the input record it was derived from whose name is not
\* one of the operation's computed field names.  The record an output is
\* derived from is the one at the same position (counted within each pass
\* over the batch), and for the Train Test Split the one at the index the
\* worker printed.
C12_FramePreserved ==
  (/\ pc = "returned"
   /\ call.operation \in {"transform", "fitTransform", "predict", "fitPredict",
                          "split", "startRun", "logMetrics", "endRun"}
   /\ \A n \in 1..Len(result) : \A j \in 1..Len(result[n]) :
        <<"error">> \notin DOMAIN result[n][j])
  => LET cols == SplitColumns(call.params.featureColumns)
         Computed ==
           {<<"cluster">>, <<"distances_to_centers">>, <<"model">>,
            <<"cluster_centers">>, <<"inertia">>, <<"scaler">>, <<"scaler_info">>,
            <<"prediction">>, <<"probabilities">>, <<"is_noise">>,
            <<"is_core_sample">>, <<"n_clusters">>, <<"n_noise">>, <<"imputer">>,
            <<"statistics">>, <<"_split">>, <<"mlflow_result">>}
             \cup (IF call.node = "StandardScaler"
                   THEN {call.params.outputPrefix \o cols[c] : c \in 1..Len(cols)}
                   ELSE IF call.node = "SimpleImputer"
                   THEN {cols[c] : c \in 1..Len(cols)}
                   ELSE {})
         printed == JsonParse(TrimText(python.outcome.stdout))
         From(n, j) ==
           IF call.node = "TrainTestSplit"
           THEN (IF n = 1 THEN printed.train_indices ELSE printed.test_indices).v[j] + 1
           ELSE ((j - 1) % Len(call.items)) + 1
     IN  \A n \in 1..Len(result) : \A j \in 1..Len(result[n]) :
           \A f \in (DOMAIN call.items[From(n, j)]) \ Computed :
             /\ f \in DOMAIN result[n][j]
             /\ result[n][j][f] = call.items[From(n, j)][f]

\* an imputer transform that returned its records with a missing value of
\* column a filled in
C12_Witness ==
  /\ pc = "returned"
  /\ call.node = "SimpleImputer"
  /\ call.operation = "transform"
  /\ Len(result[1]) = Len(call.items)
  /\ Len(call.items) >= 2
  /\ \A j \in 1..Len(result[1]) : <<"error">> \notin DOMAIN result[1][j]
  /\ \E j \in 1..Len(result[1]) :
       /\ Get(call.items[j], ColA) = Null
       /\ result[1][j][ColA] # Null
       /\ result[1][j][ColY] = call.items[j][ColY]

\* C13: when a Standard Scaler or MinMax Scaler fit-transform has returned
\* and a transform is then run on the same records and columns with the
\* scaler that fit-transform returned, every record the transform returns
\* holds, in each scaled column, the value the fit-transform returned in
\* the record at the same position.
C13_RoundTrip ==
  (/\ pc = "returned"
   /\ previous # NoCall
   /\ previous.call.operation = "fitTransform"
   /\ call.operation = "transform"
   /\ \A j \in 1..Len(result[1]) : <<"error">> \notin DOMAIN result[1][j])
  => LET cols == SplitColumns(call.params.featureColumns)
         before == previous.result[1]
     IN  /\ Len(result[1]) = Len(before)
         /\ \A j \in 1..Len(before) : \A c \in 1..Len(cols) :
              LET name == call.params.outputPrefix \o cols[c]
              IN  /\ name \in DOMAIN result[1][j]
                  /\ result[1][j][name] = before[j][name]

\* a Standard Scaler transform that returned scaled values after the
\* fit-transform that made its scaler
C13_Witness ==
  /\ pc = "returned"
  /\ previous # NoCall
  /\ previous.call.node = "StandardScaler"
  /\ previous.call.operation = "fitTransform"
  /\ call.operation = "transform"
  /\ ~previous.call.params.withMean
  /\ Len(result[1]) >= 2
  /\ \A j \in 1..Len(result[1]) :
       /\ <<"error">> \notin DOMAIN result[1][j]
       /\ result[1][j][<<"scaled_", "a">>].k = "app"

\* C14: whichever of the four settings of With Mean and With Std a Standard
\* Scaler fit or fit-transform is given, its worker, handed a matrix of
\* numbers, succeeds and prints an artifact that records the two settings.
C14_FourCombinations ==
  (/\ pc = "awaiting"
   /\ call.node = "StandardScaler"
   /\ call.operation \in {"fit", "fitTransform"}
   /\ ~MatrixHasNull(JsonParse(python.argv[1])))
  => LET ran == StandardScalerFitScript(python.script, python.argv)
     IN  /\ ran # Raised
         /\ JsonParse(TrimText(ran.stdout)).with_mean = call.params.withMean
         /\ JsonParse(TrimText(ran.stdout)).with_std = call.params.withStd

\* C15: a Standard Scaler fit with both options on, over three records whose
\* column a holds 1, 2 and 3, stores mean 2 and variance 2/3, and the
\* transform of a record whose a is 4 with that scaler returns
\* (4 - 2) / sqrt(2/3), which rounds to 2.449.
C15_WorkedExample ==
  (/\ pc = "returned"
   /\ previous # NoCall
   /\ previous.call.node = "StandardScaler"
   /\ previous.call.operation = "fit"
   /\ previous.call.items = CleanBatch(3)
   /\ previous.call.params.featureColumns = <<"a">>
   /\ previous.call.params.withMean /\ previous.call.params.withStd
   /\ call.operation = "transform"
   /\ call.items = <<Clean(4)>>)
  => LET scaler == JsonParse(previous.result[1][1][<<"scaler">>].v)
         y == result[1][1][<<"scaled_", "a">>]
     IN  /\ FracEq(RatValue(scaler.mean.v[1]), Frac(2, 1))
         /\ FracEq(RatValue(scaler.var.v[1]), Frac(2, 3))
         /\ y = Standardize(Num(4), scaler.mean.v[1], scaler.scale.v[1],
                            TRUE, TRUE)
         /\ Positive(y)
         /\ ~FracLess(SquareValue(y), Frac(24485 * 24485, 100000000))
         /\ FracLess(SquareValue(y), Frac(24495 * 24495, 100000000))

\* the transform of the record whose a is 4 has returned its scaled value
C15_Witness ==
  /\ pc = "returned"
  /\ previous # NoCall
  /\ previous.call.node = "StandardScaler"
  /\ previous.call.operation = "fit"
  /\ previous.call.items = CleanBatch(3)
  /\ call.operation = "transform"
  /\ call.items = <<Clean(4)>>
  /\ Len(result[1]) = 1
  /\ <<"scaled_", "a">> \in DOMAIN result[1][1]
  /\ FracEq(SquareValue(result[1][1][<<"scaled_", "a">>]), Frac(6, 1))

\* C16: a Linear Regression Train that returns without an error record
\* returns exactly one record, which holds model, coefficients, intercept,
\* r2_score and training_samples = the number of input records.
C16_OneTrainingRecord ==
  (/\ pc = "returned"
   /\ call.node = "LinearRegression"
   /\ call.operation = "train"
   /\ \A j \in 1..Len(result[1]) : <<"error">> \notin DOMAIN result[1][j])
  => /\ Len(result[1]) = 1
     /\ {<<"model">>, <<"coefficients">>, <<"intercept">>, <<"r2_score">>,
         <<"training_samples">>} \subseteq DOMAIN result[1][1]
     /\ result[1][1][<<"training_samples">>] = Num(Len(call.items))

\* C17: a Log Metrics or End Run worker started on the records that Start
\* Run returned acts on the run whose id Start Run returned.
C17_RunIdThreaded ==
  (/\ pc = "awaiting"
   /\ previous # NoCall
   /\ previous.call.operation = "startRun"
   /\ call.node = "Mlflow")
  => MlflowActsOn(python.script, python.argv)
       = previous.result[1][1][<<"mlflow_result">>].v.run_id

\* C18: however the stdout, stderr and close events of overlapping
\* executions interleave, an execution that has returned or thrown has
\* returned or thrown what it does when it runs by itself and its workers
\* end in the same way.
C18_Isolation ==
  \A e \in DOMAIN frames :
    frames[e].pc \in {"returned", "thrown"}
      => LET alone == Alone(frames[e].call, frames[e].trace)
         IN  /\ frames[e].pc = IF alone.kind = "return" THEN "returned" ELSE "thrown"
             /\ frames[e].result = IF alone.kind = "return" THEN alone.outputs
                                   ELSE alone.error

\* two executions have both finished, and the second one's worker was
\* still printing after the first one's had begun to
C18_Witness ==
  /\ DOMAIN frames = Executions
  /\ frames[1].pc = "awaiting"
  /\ frames[2].pc = "awaiting"
  /\ frames[1].python.state = "running"
  /\ frames[2].python.state = "running"
  /\ frames[1].output # <<>>
  /\ frames[2].output # <<>>
  /\ frames[1].python.stdout # <<>>
  /\ frames[2].python.stdout # <<>>

\* C19: the worker of an apply operation (predict, transform) calls no
\* fitting routine.
C19_NoFitAtApply ==
  (/\ pc = "awaiting"
   /\ call.operation \in {"predict", "transform"})
  => \A i \in 1..Len(WorkerCalls(python.script)) :
       WorkerCalls(python.script)[i] \notin FittingRoutines

\* C20: when the worker of an ElasticNet or Gradient Boosting predict gets
\* as far as deserializing the blob, the artifact is of the node's own
\* model family and the number of feature columns it declares is the width
\* of the matrix to predict on.
C20_ValidatedBeforeLoad ==
  (/\ pc = "awaiting"
   /\ Deserializes(python.script, python.argv))
  => LET md == JsonParse(python.argv[1])
         X == JsonParse(python.argv[2])
     IN  /\ md.model_pickle.v.f = call.node
         /\ HasKeys(md, {"feature_columns"})
         /\ Len(md.feature_columns.v) = Width(X)

\* C21: the document a fit or train worker prints on success holds the
\* column list used at fit time, a tag naming how the model is encoded
\* (explicit parameters or opaque blob) and an identifier of the model
\* family.
C21_ArtifactAttributes ==
  (/\ pc = "awaiting"
   /\ call.operation \in {"fit", "fitTransform", "fitPredict", "train"}
   /\ python.outcome.code = 0
   /\ JsonOk(python.outcome.stdout))
  => LET artifact == JsonParse(TrimText(python.outcome.stdout))
     IN  /\ "feature_columns" \in DOMAIN artifact
         /\ DOMAIN artifact \cap {"encoding", "encoding_strategy", "format"} # {}
         /\ DOMAIN artifact
              \cap {"model_family", "family", "estimator", "model_class"} # {}

\* C22: the matrix handed to the worker of a KMeans, Standard Scaler,
\* DBSCAN, ElasticNet-predict or Gradient-Boosting-predict execution has one
\* row per input record, in input order, and one column per declared column,
\* in declared order and with the names trimmed; where record i holds a
\* number in the j-th declared column, entry (i, j) is that number.
C22_MatrixShape ==
  (/\ pc = "awaiting"
   /\ \/ call.node \in {"KMeans", "StandardScaler", "DBSCAN"}
      \/ call.node \in {"ElasticNet", "GradientBoosting"}
           /\ call.operation = "predict")
  => LET X == JsonParse(python.argv[Len(python.argv)])
         declared ==
           CASE call.params.featureColumns = <<"a">> -> <<ColA>>
             [] call.params.featureColumns = <<"a", ",", " ", "b">> -> <<ColA, ColB>>
             [] OTHER -> <<ColB, ColA>>
     IN  /\ Len(X) = Len(call.items)
         /\ \A i \in 1..Len(X) :
              /\ Len(X[i]) = Len(declared)
              /\ \A j \in 1..Len(declared) :
                   call.items[i][declared[j]].k = "num"
                     => X[i][j] = call.items[i][declared[j]]

\* a worker has been handed the matrix of three records over columns b, a
C22_Witness ==
  /\ pc = "awaiting"
  /\ call.node = "KMeans"
  /\ call.params.featureColumns = <<"b", ",", "a">>
  /\ Len(call.items) = 3
  /\ JsonParse(python.argv[Len(python.argv)])
       = <<<<Num(4), Num(1)>>, <<Num(5), Num(2)>>, <<Num(6), Num(3)>>>>

\* C23: in whatever environment the host was started, the interpreter a
\* worker is spawned with is the Python Path parameter when that is set,
\* else the PYTHON_PATH environment variable when that is set, else python3.
C23_InterpreterPath ==
  pc = "awaiting"
  => \A env \in Environments :
       PythonPath(call.params, env)
         = IF "pythonPath" \in DOMAIN call.params THEN call.params.pythonPath
           ELSE IF "PYTHON_PATH" \in DOMAIN env THEN env.PYTHON_PATH
           ELSE <<"python3">>

\* C24: in an execution with continue-on-failure off, no worker is started
\* after one that failed; the execution returns records only when nothing
\* failed, and then none of them is an error record; and when something
\* failed it throws the error, handing over none of the records that
\* earlier iterations had pushed.
C24_FailurePropagates ==
  LET Worked(o) == o.code = 0 /\ JsonOk(o.stdout)
  IN  (call # NoCall /\ ~call.params.continueOnFail)
      => /\ \A k \in 1..(Len(trace) - 1) : Worked(trace[k])
         /\ pc = "returned"
              => /\ \A k \in 1..Len(trace) : Worked(trace[k])
                 /\ \A j \in 1..Len(result[1]) :
                      <<"error">> \notin DOMAIN result[1][j]
         /\ pc = "thrown"
              => /\ DOMAIN result = {"name", "message"}
                      \/ DOMAIN result = {"name", "message", "itemIndex"}
                 /\ result.name \in {"Error", "NodeOperationError", "SyntaxError",
                                     "TypeError"}

\* an execution with continue-on-failure off has thrown after an earlier
\* iteration had pushed a record
C24_Witness ==
  /\ pc = "thrown"
  /\ call # NoCall
  /\ ~call.params.continueOnFail
  /\ returnData # <<>>
  /\ Len(trace) = 2
  /\ trace[2].code # 0

\* C25: an execution that is awaiting a worker eventually has its promise
\* settled, whether the worker ran and exited or could not be started.
C25_EventuallySettles == (pc = "awaiting") ~> (pc = "settled")

\* C26: a transform whose scaler parameter is an expression over the input
\* record applies the scaler of record 0 to the whole batch: every worker
\* it starts is handed the scaler attached to the first record, and the
\* execution does not fail on a record that carries no scaler of its own.
C26_ArtifactOfFirstRecord ==
  (/\ call # NoCall
   /\ "modelDataFrom" \in DOMAIN call.params
   /\ call.params.modelDataFrom \in DOMAIN call.items[1])
  => /\ pc = "awaiting"
        => python.argv[1] = call.items[1][call.params.modelDataFrom].v
     /\ pc = "thrown" => result.name # "SyntaxError"

\* the fields a transform or predict computes for each record
OutputFields(c) ==
  LET cols == SplitColumns(c.params.featureColumns)
  IN  CASE c.node = "KMeans" -> {<<"cluster">>, <<"distances_to_centers">>}
        [] c.node \in {"StandardScaler", "MinMaxScaler"} ->
             {c.params.outputPrefix \o cols[j] : j \in 1..Len(cols)}
        [] c.node = "SimpleImputer" -> {cols[j] : j \in 1..Len(cols)}
        [] OTHER -> {<<"prediction">>}

\* C27: every record a transform or predict returns, other than an error
\* record, holds a defined value in each field the operation computes.
C27_ComputedValuesDefined ==
  (/\ pc = "returned"
   /\ call.operation \in {"transform", "predict"})
  => \A j \in 1..Len(result[1]) :
       <<"error">> \notin DOMAIN result[1][j]
       => \A f \in OutputFields(call) :
            /\ f \in DOMAIN result[1][j]
            /\ result[1][j][f] # Undefined

\* C28: when Label Encoder fit-transform has returned and inverse-transform,
\* run on its records with the encoder it emitted, on the encoded column,
\* has returned too, every record comes back with a decoded value equal to the value its
\* original column held in the batch given to fit-transform.
C28_LabelRoundTrip ==
  (/\ previous # NoCall
   /\ previous.call.node = "LabelEncoder"
   /\ call.operation = "inverseTransform"
   /\ pc = "returned")
  => /\ Len(result[1]) = Len(previous.call.items)
     /\ \A j \in 1..Len(previous.call.items) :
          LET decoded == OutCol(call.params, "_decoded")
          IN  /\ decoded \in DOMAIN result[1][j]
              /\ result[1][j][decoded]
                   = previous.call.items[j][previous.call.params.column]

\* the same, for batches whose column holds texts only
C28_TextLabelsRoundTrip ==
  (/\ previous # NoCall
   /\ previous.call.node = "LabelEncoder"
   /\ \A j \in 1..Len(previous.call.items) :
        previous.call.items[j][previous.call.params.column].k = "str")
  => C28_LabelRoundTrip

\* C29: when Train/Test Split has returned, every input record is in exactly
\* one place of its two outputs (none lost, none repeated, none in both), and
\* every record of the first output is tagged _split = 'train', every record
\* of the second _split = 'test'.
C29_Partition ==
  (pc = "returned" /\ call.node = "TrainTestSplit")
  => LET Tag(o) == Str(<<IF o = 1 THEN "train" ELSE "test">>)
         places == {<<o, n>> \in (1..2) \X (1..Len(call.items)) :
                      n \in 1..Len(result[o])}
     IN  /\ Len(result) = 2
         /\ Len(result[1]) + Len(result[2]) = Len(call.items)
         /\ \A i \in 1..Len(call.items) :
              Cardinality({pl \in places :
                             result[pl[1]][pl[2]]
                               = Put(call.items[i], <<"_split">>, Tag(pl[1]))}) = 1
         /\ \A pl \in places : result[pl[1]][pl[2]][<<"_split">>] = Tag(pl[1])

\* a split of three records that returned two for training and one for
\* testing
C29_Witness ==
  /\ pc = "returned"
  /\ call.node = "TrainTestSplit"
  /\ Len(call.items) = 3
  /\ Len(result[1]) = 2
  /\ Len(result[2]) = 1

\* C30: whenever the worker of an apply operation is running, the argument
\* at the position from which its script reads the artifact is the artifact
\* parameter of the call, and the argument at the position from which it
\* reads the data is the other one, the JSON text of the extracted data
\* (one row per record; the one record's row in Linear Regression).
C30_ArgumentOrder ==
  (pc = "awaiting" /\ python.script.id \in ApplyScripts)
  => LET artifact == GetNodeParameters(call.params, call.items,
                                       ResolvedAt(call.node, itemIndex)).modelData
         a == ArtifactArg(python.script)
         d == DataArg(python.script)
     IN  /\ Len(python.argv) = 2
         /\ {a, d} = {1, 2}
         /\ python.argv[a] = artifact
         /\ JsonOk(python.argv[d])
         /\ Len(JsonParse(python.argv[d]))
              = IF call.node = "LinearRegression"
                THEN Len(SplitColumns(call.params.featureColumns))
                ELSE Len(call.items)

\* a Simple Imputer transform, whose script reads the rows first and the
\* imputer second, waiting for its worker
C30_Witness ==
  /\ pc = "awaiting"
  /\ python.script.id = "SimpleImputer.transform"
  /\ python.argv[2] = call.params.modelData
  /\ Len(JsonParse(python.argv[1])) = Len(call.items)
  /\ Len(call.items) >= 2

====
